---- MODULE Spec2Model ----
(***************************************************************************)
(* PackRocket API: the profile / billing reconciliation workflow.          *)
(*                                                                         *)
(* Every route handler is an async function: the code between two awaits   *)
(* runs atomically on the event loop, and handlers of different requests   *)
(* interleave at their awaits.  One action of this model is one external   *)
(* call together with the synchronous continuation that follows it.        *)
(***************************************************************************)
EXTENDS Integers, Sequences, FiniteSets, TLC

(***************************************************************************)
(* Bounds of the model.                                                    *)
(***************************************************************************)
\* Requests that may be in flight at the same time.
MaxInFlight == 1

Slots == 1..MaxInFlight

\* The same, in the specifications of overlapping update-profile requests.
MaxRacing == 2

Racers == 1..MaxRacing

(***************************************************************************)
(* JavaScript values.  Strings, numbers, null and undefined are kept apart *)
(* because the code's ||, ! and !== tests tell them apart.                 *)
(***************************************************************************)
Str(s) == [t |-> "str", v |-> s]
Num(n) == [t |-> "num", v |-> n]
Bool(b) == [t |-> "bool", v |-> b]
JNull == [t |-> "null"]
JUndef == [t |-> "undefined"]

\* ToBoolean: "", 0, null and undefined are falsy.
Truthy(x) ==
  CASE x.t = "str" -> x.v # ""
    [] x.t = "num" -> x.v # 0
    [] x.t = "bool" -> x.v
    [] OTHER -> FALSE

\* a || b
Or(a, b) == IF Truthy(a) THEN a ELSE b

(***************************************************************************)
(* new Date(seconds * 1000).toISOString(): the UTC calendar date and time  *)
(* of an epoch-seconds instant, as "YYYY-MM-DDTHH:mm:ss.sssZ".  The        *)
(* milliseconds are always 000 because the argument is seconds * 1000.     *)
(***************************************************************************)
Pad2(n) == IF n < 10 THEN "0" \o ToString(n) ELSE ToString(n)

Pad4(n) ==
  IF n < 10 THEN "000" \o ToString(n)
  ELSE IF n < 100 THEN "00" \o ToString(n)
  ELSE IF n < 1000 THEN "0" \o ToString(n)
  ELSE ToString(n)

\* <<year, month, day>> of a day count since 1970-01-01 (proleptic Gregorian).
CivilFromDays(days) ==
  LET z == days + 719468
      era == z \div 146097
      doe == z - era * 146097
      yoe == (doe - doe \div 1460 + doe \div 36524 - doe \div 146096) \div 365
      doy == doe - (365 * yoe + yoe \div 4 - yoe \div 100)
      mp == (5 * doy + 2) \div 153
      d == doy - (153 * mp + 2) \div 5 + 1
      m == IF mp < 10 THEN mp + 3 ELSE mp - 9
      y == yoe + era * 400 + (IF m <= 2 THEN 1 ELSE 0)
  IN <<y, m, d>>

SecondsToISO(secs) ==
  LET ymd == CivilFromDays(secs \div 86400)
      sod == secs % 86400
  IN Pad4(ymd[1]) \o "-" \o Pad2(ymd[2]) \o "-" \o Pad2(ymd[3]) \o "T"
       \o Pad2(sod \div 3600) \o ":" \o Pad2((sod % 3600) \div 60) \o ":"
       \o Pad2(sod % 60) \o ".000Z"

(***************************************************************************)
(* Input domains.                                                          *)
(***************************************************************************)
Emails == {"a@b.com", "c@d.com"}

\* The id the identity provider gives the account it creates for an email, and
\* the id the payment gateway gives the customer a signup creates for it.  Both
\* providers hand out an id once; an email gets at most one account, and only
\* the signup that created the account goes on to create a customer.
UserIdOf(e) == IF e = "a@b.com" THEN "u_a" ELSE "u_c"

CustomerOf(e) == IF e = "a@b.com" THEN "cus_a" ELSE "cus_c"

\* A customer of the same gateway account that no signup of this service made.
ForeignCustomer == "cus_x"

\* The signups that go through checkout: the gateway has events about their
\* customers only (and about its foreign customers).
PayingEmails == {"a@b.com"}

\* current_period_end values of the gateway (epoch seconds):
\* 2023-11-14T22:13:20Z and 2024-02-29T23:59:59Z.
Epochs == {1700000000, 1709251199}

\* The subscription objects the gateway reports: <<id, current_period_end>>.
Subscriptions == {<<"sub_A", 1700000000>>, <<"sub_B", 1709251199>>}

\* The instants the server's clock shows, in order (epoch seconds).
Instants == <<1730000000, 1730003600>>

EventTypes ==
  {"checkout.session.completed", "customer.subscription.updated", "invoice.paid"}

\* The events of the given types the gateway can deliver about customer c.
EventsAbout(c, types) ==
  {ev \in {[verified |-> TRUE, type |-> "checkout.session.completed", customer |-> Str(c)],
           [verified |-> TRUE, type |-> "invoice.paid", customer |-> Str(c)]} :
     ev.type \in types}
  \cup {[verified |-> TRUE, type |-> "customer.subscription.updated", customer |-> Str(c),
         id |-> Str(sub[1]), current_period_end |-> sub[2]] :
           sub \in IF "customer.subscription.updated" \in types
                   THEN Subscriptions ELSE {}}

(***************************************************************************)
(* State.                                                                  *)
(***************************************************************************)
VARIABLES
  profiles,    \* the datastore's "profiles" table: account id -> row
  authUsers,   \* the identity provider's accounts: email -> account id
  customers,   \* the customers the payment gateway has created for signups
  mirror,      \* the tabular mirror's records, in creation order
  env,         \* which of the mirror's environment settings are set
  clock,       \* the position in Instants the server's clock has reached
  reqs         \* per slot: the handler invocation running, or its response

vars == <<profiles, authUsers, customers, mirror, env, clock, reqs>>

Idle == [op |-> "idle", pc |-> "idle", in |-> [none |-> TRUE],
         loc |-> [none |-> TRUE], calls |-> {}]

\* A slot takes a new request when it is idle or holds a sent response.
Free(s) == reqs[s].pc \in {"idle", "done"}

(***************************************************************************)
(* The datastore (Supabase / PostgREST) as the handlers use it.            *)
(***************************************************************************)
\* The ids of the rows whose column col equals val.
Matching(p, col, val) == {i \in DOMAIN p : p[i][col] = val}

\* .single(): the row when exactly one matches, else the PGRST116 error.
Single(p, ids) ==
  IF Cardinality(ids) = 1
  THEN [data |-> <<p[CHOOSE i \in ids : TRUE]>>, error |-> "none"]
  ELSE [data |-> <<>>, error |-> "PGRST116"]

\* What a call answers when the datastore itself fails.
DbFault == [data |-> <<>>, error |-> "fault"]

\* A row with the columns of u overwritten.
MergeResetsUnchanged(row, u) ==
  IF \A c \in DOMAIN u : row[c] = u[c]
  THEN [row EXCEPT !.status = Str("pending")]
  ELSE [c \in DOMAIN row |-> IF c \in DOMAIN u THEN u[c] ELSE row[c]]

Merge(row, u) == [c \in DOMAIN row |-> IF c \in DOMAIN u THEN u[c] ELSE row[c]]

\* An update whose filter is not applied.
DbUpdateEveryRow(p, col, val, u) == [i \in DOMAIN p |-> Merge(p[i], u)]

\* .update(u).eq(col, val)
DbUpdate(p, col, val, u) ==
  [i \in DOMAIN p |-> IF p[i][col] = val THEN Merge(p[i], u) ELSE p[i]]

(***************************************************************************)
(* Responding ends the invocation: until its next request the slot keeps   *)
(* the response, the error the last datastore call returned, and of the    *)
(* request what the log lines name.                                        *)
(***************************************************************************)
LoggedFields == {"verified", "type", "email"}

Respond(s, r, status, msg, dbError) ==
  reqs' = [reqs EXCEPT ![s] = [op |-> r.op, pc |-> "done",
                               in |-> [k \in DOMAIN r.in \cap LoggedFields |-> r.in[k]],
                               loc |-> [status |-> status, msg |-> msg,
                                        dbError |-> dbError],
                               calls |-> r.calls]]

Goto(s, r) == reqs' = [reqs EXCEPT ![s] = r]

(***************************************************************************)
(* POST /api/stripe/webhook                                                *)
(***************************************************************************)
\* Customers a delivered event can be about.
GatewayCustomers ==
  (customers \cap {CustomerOf(e) : e \in PayingEmails}) \cup {ForeignCustomer}

\* The update the checkout.session.completed branch sends.
CheckoutUpdateResetsBilling ==
  [status |-> Str("active"), stripe_subscription_id |-> JNull, current_period_end |-> JNull]

CheckoutUpdate == [status |-> Str("active")]

\* The update the customer.subscription.updated branch sends.
SubscriptionUpdateActivates(sub) ==
  [stripe_subscription_id |-> sub.id,
   current_period_end |-> Str(SecondsToISO(sub.current_period_end)),
   status |-> Str("active")]

SubscriptionUpdate(sub) ==
  [stripe_subscription_id |-> sub.id,
   current_period_end |-> Str(SecondsToISO(sub.current_period_end))]

\* res.sendStatus(200): the acknowledgement that ends every verified delivery
\* whose branch did not throw, whatever error the datastore returned.
AckUnlessNoRow(s, r, dbError) ==
  IF dbError = "PGRST116"
  THEN Respond(s, r, 404, "Not Found", dbError)
  ELSE Respond(s, r, 200, "OK", dbError)

\* The acknowledgement of a handler that had called the mirror first.
AckViaMirror(s, r, dbError) ==
  Respond(s, [r EXCEPT !.calls = @ \cup {"mirror"}], 200, "OK", dbError)

Ack(s, r, dbError) == Respond(s, r, 200, "OK", dbError)

\* The branch a verified event takes: the label of its first await, or "none".
BranchCatchAll(ev) ==
  IF ev.type = "customer.subscription.updated" THEN "su_select" ELSE "co_select"

Branch(ev) ==
  CASE ev.type = "checkout.session.completed" -> "co_select"
    [] ev.type = "customer.subscription.updated" -> "su_select"
    [] OTHER -> "none"

\* constructEvent throws: the catch answers 400 and returns.
WebhookRejectAfterApplying(s, ev) ==
  /\ Respond(s, [Idle EXCEPT !.op = "webhook", !.in = [verified |-> FALSE]],
             400, "Webhook Error", "none")
  /\ profiles' = DbUpdate(profiles, "stripe_customer_id", ev.customer, CheckoutUpdate)
  /\ UNCHANGED <<authUsers, customers, mirror, env, clock>>

WebhookReject(s, ev) ==
  /\ Respond(s, [Idle EXCEPT !.op = "webhook", !.in = [verified |-> FALSE]],
             400, "Webhook Error", "none")
  /\ UNCHANGED <<profiles, authUsers, customers, mirror, env, clock>>

\* constructEvent and the synchronous dispatch that follows it.
WebhookReceive(s, types) ==
  /\ Free(s)
  /\ \E c \in GatewayCustomers : \E ev \in EventsAbout(c, types) : \E sigOk \in BOOLEAN :
       IF ~sigOk THEN WebhookReject(s, ev)
       ELSE
         /\ UNCHANGED <<profiles, authUsers, customers, mirror, env, clock>>
         /\ LET r == [Idle EXCEPT !.op = "webhook", !.in = ev]
            IN IF Branch(ev) # "none"
               THEN Goto(s, [r EXCEPT !.pc = Branch(ev), !.calls = {"datastore"}])
               ELSE Ack(s, r, "none")

\* The datastore answers the lookup by stripe_customer_id.
WebhookSelect(s) ==
  /\ reqs[s].op = "webhook"
  /\ reqs[s].pc \in {"co_select", "su_select"}
  /\ UNCHANGED <<profiles, authUsers, customers, mirror, env, clock>>
  /\ \E fault \in BOOLEAN :
       LET r == reqs[s]
           res == IF fault THEN DbFault
                  ELSE Single(profiles, Matching(profiles, "stripe_customer_id", r.in.customer))
       IN IF res.data # <<>>
          THEN Goto(s, [r EXCEPT !.pc = IF r.pc = "co_select" THEN "co_update" ELSE "su_update",
                                 !.loc = [user |-> res.data[1].id]])
          ELSE Ack(s, r, res.error)

\* The datastore answers the update by id; its error, if any, is not read.
WebhookUpdate(s) ==
  /\ reqs[s].op = "webhook"
  /\ reqs[s].pc \in {"co_update", "su_update"}
  /\ UNCHANGED <<authUsers, customers, mirror, env, clock>>
  /\ \E fault \in BOOLEAN :
       LET r == reqs[s]
           u == IF r.pc = "co_update" THEN CheckoutUpdate ELSE SubscriptionUpdate(r.in)
       IN /\ profiles' = IF fault THEN profiles ELSE DbUpdate(profiles, "id", r.loc.user, u)
          /\ Ack(s, r, IF fault THEN "fault" ELSE "none")

(***************************************************************************)
(* POST /api/stripe/cancel-subscription                                    *)
(***************************************************************************)
CancelBodies == {[email |-> Str(e)] : e \in Emails} \cup {[email |-> JUndef]}

\* The update sent once the gateway has answered with updatedSub.
CancelUpdateKeepsPeriod(updatedSub) ==
  [status |-> Str("cancelling"), stripe_subscription_id |-> updatedSub.id]

CancelUpdate(updatedSub) ==
  [status |-> Str("cancelling"),
   stripe_subscription_id |-> updatedSub.id,
   current_period_end |-> Str(SecondsToISO(updatedSub.current_period_end))]

CancelReceive(s) ==
  /\ Free(s)
  /\ UNCHANGED <<profiles, authUsers, customers, mirror, env, clock>>
  /\ \E body \in CancelBodies :
       LET r == [Idle EXCEPT !.op = "cancel", !.in = body]
       IN IF ~Truthy(body.email)
          THEN Respond(s, r, 400, "Missing email", "none")
          ELSE Goto(s, [r EXCEPT !.pc = "cn_select", !.calls = {"datastore"}])

\* Whether the looked-up profile lets the cancellation go on to the gateway.
HasSubscriptionUnchecked(profile) == TRUE

HasSubscription(profile) == Truthy(profile.stripe_subscription_id)

\* The datastore answers the lookup by email.
CancelSelect(s) ==
  /\ reqs[s].op = "cancel"
  /\ reqs[s].pc = "cn_select"
  /\ UNCHANGED <<profiles, authUsers, customers, mirror, env, clock>>
  /\ \E fault \in BOOLEAN :
       LET r == reqs[s]
           res == IF fault THEN DbFault
                  ELSE Single(profiles, Matching(profiles, "email", r.in.email))
       IN IF res.error # "none"
          THEN Respond(s, r, 500, "Profile lookup failed", res.error)
          ELSE IF ~HasSubscription(res.data[1])
          THEN Respond(s, r, 400, "No active subscription found for this user", "none")
          ELSE Goto(s, [r EXCEPT !.pc = "cn_gateway",
                                 !.loc = [id |-> res.data[1].id,
                                          sub |-> res.data[1].stripe_subscription_id],
                                 !.calls = @ \cup {"gateway"}])

\* A catch that logs and sends nothing.
CancelCatchDrops(s, r) == Goto(s, [r EXCEPT !.pc = "dropped"])

\* The catch of the cancel route: the gateway call threw.
CancelCatch(s, r) == Respond(s, r, 500, "Server error", "none")

\* The gateway answers subscriptions.update(sub, {cancel_at_period_end}).
CancelGateway(s) ==
  /\ reqs[s].op = "cancel"
  /\ reqs[s].pc = "cn_gateway"
  /\ UNCHANGED <<profiles, authUsers, customers, mirror, env, clock>>
  /\ LET r == reqs[s]
     IN \/ CancelCatch(s, r)
        \/ \E e \in Epochs :
             Goto(s, [r EXCEPT !.pc = "cn_update",
                               !.loc = [id |-> r.loc.id,
                                        updatedSub |-> [id |-> r.loc.sub,
                                                        current_period_end |-> e]]])

\* The datastore answers the write-back by id; its error, if any, is not read.
CancelWriteBack(s) ==
  /\ reqs[s].op = "cancel"
  /\ reqs[s].pc = "cn_update"
  /\ UNCHANGED <<authUsers, customers, mirror, env, clock>>
  /\ \E fault \in BOOLEAN :
       LET r == reqs[s]
       IN /\ profiles' = IF fault THEN profiles
                         ELSE DbUpdate(profiles, "id", r.loc.id, CancelUpdate(r.loc.updatedSub))
          /\ Respond(s, r, 200, "ok", IF fault THEN "fault" ELSE "none")

(***************************************************************************)
(* upsertAirtableMoverFromProfile: the mirror sync.                        *)
(***************************************************************************)
\* row.col, undefined when the object has no such property.
Get(row, col) == IF col \in DOMAIN row THEN row[col] ELSE JUndef

\* process.env.AIRTABLE_TABLE_NAME || "Movers"
MoversTableName == IF env.tableName THEN "Directory" ELSE "Movers"

\* The sync returns before any mirror call.
SyncSkips(row) ==
  \/ ~env.apiKey
  \/ ~env.baseId
  \/ MoversTableName = ""
  \/ ~Truthy(Get(row, "email"))

\* The field set the sync writes for a profile row.
MirrorFieldsFullNameFirst(row) ==
  LET name == Or(Or(Get(row, "full_name"), Get(row, "business_name")), Str("Mover"))
      logoUrl == Or(Get(row, "logo_url"), Str(""))
      startingPrice == Or(Get(row, "starting_price"), JNull)
      base == [Email |-> row.email,
               Name |-> name,
               Phone |-> Or(Get(row, "phone_e164"), Str("")),
               City |-> Or(Get(row, "city"), Str("")),
               State |-> Or(Get(row, "state"), Str("")),
               Plan |-> Or(Get(row, "plan"), Str("Starter"))]
      logo == IF Truthy(logoUrl)
              THEN ("Logo" :> [t |-> "attachments", v |-> <<logoUrl.v>>])
              ELSE <<>>
      price == IF startingPrice # JNull
               THEN ("Starting price" :> startingPrice)
               ELSE <<>>
  IN base @@ logo @@ price

MirrorFields(row) ==
  LET name == Or(Or(Get(row, "business_name"), Get(row, "full_name")), Str("Mover"))
      logoUrl == Or(Get(row, "logo_url"), Str(""))
      startingPrice == Or(Get(row, "starting_price"), JNull)
      base == [Email |-> row.email,
               Name |-> name,
               Phone |-> Or(Get(row, "phone_e164"), Str("")),
               City |-> Or(Get(row, "city"), Str("")),
               State |-> Or(Get(row, "state"), Str("")),
               Plan |-> Or(Get(row, "plan"), Str("Starter"))]
      logo == IF Truthy(logoUrl)
              THEN ("Logo" :> [t |-> "attachments", v |-> <<logoUrl.v>>])
              ELSE <<>>
      price == IF startingPrice # JNull
               THEN ("Starting price" :> startingPrice)
               ELSE <<>>
  IN base @@ logo @@ price

\* The lookup that never finds a record.
FindByEmailNever(m, email) == 0

\* select({filterByFormula: {Email} = "email", maxRecords: 1}).firstPage():
\* the position of the first record with that Email, 0 when there is none.
FindByEmail(m, email) ==
  LET hits == {i \in 1..Len(m) : m[i].fields.Email = email}
  IN IF hits = {} THEN 0 ELSE CHOOSE i \in hits : \A j \in hits : i <= j

\* table.update that replaces the record's fields by the listed ones.
MirrorUpdateReplaces(m, i, fields) == [m EXCEPT ![i].fields = fields]

\* An update done as destroy and create: the record gets a new id.
MirrorUpdateRecreates(m, i, fields) ==
  Append(SubSeq(m, 1, i - 1) \o SubSeq(m, i + 1, Len(m)),
         [id |-> Len(m) + 1, fields |-> fields])

\* table.update: the listed fields overwritten, the others kept.
MirrorUpdate(m, i, fields) ==
  [m EXCEPT ![i].fields = [k \in DOMAIN @ \cup DOMAIN fields |->
                             IF k \in DOMAIN fields THEN fields[k] ELSE @[k]]]

\* table.create
MirrorCreate(m, fields) == Append(m, [id |-> Len(m) + 1, fields |-> fields])

\* One sync run on its own: the mirror answers the lookup and the write, and
\* no other sync's step comes in between.
SyncRun(m, row) ==
  IF SyncSkips(row) THEN m
  ELSE LET rec == FindByEmail(m, row.email)
           fields == MirrorFields(row)
       IN IF rec > 0 THEN MirrorUpdate(m, rec, fields) ELSE MirrorCreate(m, fields)

\* What the handler does once the sync has returned.
AfterSync(s, r) ==
  IF r.op = "signup"
  THEN Goto(s, [r EXCEPT !.pc = "sg_customer", !.loc = [user |-> r.loc.user],
                         !.calls = @ \cup {"gateway"}])
  ELSE Respond(s, r, 200, "ok", "none")

\* A mirror call throws: the sync's catch logs it and the sync returns.
SyncCaughtRethrows(s, r) ==
  IF r.op = "signup"
  THEN Respond(s, r, 500, "Signup failed", "none")
  ELSE Respond(s, r, 500, "Server error", "none")

SyncCaught(s, r) == AfterSync(s, r)

\* Entering the sync with a row: either it returns at once or it looks up.
EnterSync(s, r, row) ==
  IF SyncSkips(row)
  THEN AfterSync(s, r)
  ELSE Goto(s, [r EXCEPT !.pc = "sy_select", !.loc = [user |-> r.loc.user, row |-> row],
                         !.calls = @ \cup {"mirror"}])

\* The mirror answers the lookup, or fails (caught inside the sync).
SyncSelect(s) ==
  /\ reqs[s].pc = "sy_select"
  /\ UNCHANGED <<profiles, authUsers, customers, mirror, env, clock>>
  /\ LET r == reqs[s]
     IN \/ SyncCaught(s, r)
        \/ Goto(s, [r EXCEPT !.pc = "sy_write",
                             !.loc = [user |-> r.loc.user, row |-> r.loc.row,
                                      rec |-> FindByEmail(mirror, r.loc.row.email)]])

\* The mirror answers the update or the create, or fails (caught).
SyncWrite(s) ==
  /\ reqs[s].pc = "sy_write"
  /\ UNCHANGED <<profiles, authUsers, customers, env, clock>>
  /\ LET r == reqs[s]
         fields == MirrorFields(r.loc.row)
     IN \/ /\ UNCHANGED mirror
           /\ SyncCaught(s, r)
        \/ /\ mirror' = IF r.loc.rec > 0
                        THEN MirrorUpdate(mirror, r.loc.rec, fields)
                        ELSE MirrorCreate(mirror, fields)
           /\ AfterSync(s, r)

(***************************************************************************)
(* POST /api/signup                                                        *)
(***************************************************************************)
SignupBody(email, password, fullName, businessName, phoneE164, smsOptIn, plan) ==
  [email |-> email, password |-> password, fullName |-> fullName,
   businessName |-> businessName, phoneE164 |-> phoneE164, smsOptIn |-> smsOptIn,
   plan |-> plan]

SignupBodies ==
  {SignupBody(Str("a@b.com"), Str("x"), JUndef, JUndef, JUndef, JUndef, JUndef),
   SignupBody(Str("c@d.com"), Str("pw"), Str("Ann Lee"), Str("Acme Movers"),
              Str("+15550100"), Bool(TRUE), Str("Pro"))}
  \cup {SignupBody(JUndef, Str("x"), JUndef, JUndef, JUndef, JUndef, JUndef),
        SignupBody(Str("a@b.com"), JUndef, JUndef, JUndef, JUndef, JUndef, JUndef)}

\* plan = "Starter" in the destructuring: the default replaces undefined only.
PlanOfNoDefault(body) == IF body.plan = JUndef THEN JNull ELSE body.plan

PlanOf(body) == IF body.plan = JUndef THEN Str("Starter") ELSE body.plan

\* The row the insert creates: the columns the code sends, null elsewhere.
InsertedRow(id, body) ==
  [id |-> id,
   email |-> body.email,
   full_name |-> Or(body.fullName, Str("")),
   business_name |-> Or(body.businessName, Str("")),
   phone_e164 |-> Or(body.phoneE164, Str("")),
   sms_opt_in |-> Bool(Truthy(body.smsOptIn)),
   plan |-> PlanOf(body),
   status |-> Str("pending"),
   city |-> JNull,
   state |-> JNull,
   logo_url |-> JNull,
   starting_price |-> JNull,
   stripe_customer_id |-> JNull,
   stripe_subscription_id |-> JNull,
   current_period_end |-> JNull,
   updated_at |-> JNull]

\* The object signup hands to the sync.
SignupSyncRow(id, body) ==
  [id |-> id,
   email |-> body.email,
   full_name |-> Or(body.fullName, Str("")),
   business_name |-> Or(body.businessName, Str("")),
   phone_e164 |-> Or(body.phoneE164, Str("")),
   city |-> Str(""),
   state |-> Str(""),
   logo_url |-> Str(""),
   plan |-> PlanOf(body)]

\* if (!email || !password): the body passes the check.
SignupValidEmailOnly(body) == Truthy(body.email)

SignupValid(body) == Truthy(body.email) /\ Truthy(body.password)

SignupReceive(s) ==
  /\ Free(s)
  /\ UNCHANGED <<profiles, authUsers, customers, mirror, env, clock>>
  /\ \E body \in SignupBodies :
       LET r == [Idle EXCEPT !.op = "signup", !.in = body]
       IN IF ~SignupValid(body)
          THEN Respond(s, r, 400, "Missing required fields", "none")
          ELSE Goto(s, [r EXCEPT !.pc = "sg_auth", !.calls = {"auth"}])

\* if (authErr || !authUser?.user): 400 and return.
AuthRejectedGoesOn(s, r) ==
  Goto(s, [r EXCEPT !.pc = "sg_insert", !.loc = [user |-> Str(UserIdOf(r.in.email.v))],
                    !.calls = @ \cup {"datastore"}])

AuthRejected(s, r) == Respond(s, r, 400, "Auth create failed", "none")

\* The catch of the signup route: a gateway call threw.
SignupCatchReportsSuccess(s, r, dbError) == Respond(s, r, 200, "url", dbError)

SignupCatch(s, r, dbError) == Respond(s, r, 500, "Signup failed", dbError)

\* The identity provider answers createUser: one account per email.
SignupAuth(s) ==
  /\ reqs[s].op = "signup"
  /\ reqs[s].pc = "sg_auth"
  /\ UNCHANGED <<profiles, customers, mirror, env, clock>>
  /\ LET r == reqs[s]
         e == r.in.email.v
     IN \/ /\ UNCHANGED authUsers
           /\ AuthRejected(s, r)
        \/ /\ e \notin DOMAIN authUsers
           /\ LET id == UserIdOf(e)
              IN /\ authUsers' = authUsers @@ (e :> id)
                 /\ Goto(s, [r EXCEPT !.pc = "sg_insert", !.loc = [user |-> Str(id)],
                                      !.calls = @ \cup {"datastore"}])

\* if (insertErr): 400 with the datastore's message, and return.
InsertFailedSyncs(s, r) == EnterSync(s, r, SignupSyncRow(r.loc.user, r.in))

InsertFailed(s, r) == Respond(s, r, 400, "insert error", "fault")

\* The datastore answers the insert; then the sync is entered.
SignupInsert(s) ==
  /\ reqs[s].op = "signup"
  /\ reqs[s].pc = "sg_insert"
  /\ UNCHANGED <<authUsers, customers, mirror, env, clock>>
  /\ LET r == reqs[s]
     IN \/ /\ UNCHANGED profiles
           /\ InsertFailed(s, r)
        \/ /\ profiles' = profiles @@ (r.loc.user.v :> InsertedRow(r.loc.user, r.in))
           /\ EnterSync(s, r, SignupSyncRow(r.loc.user, r.in))

\* The gateway answers customers.create.
SignupCustomer(s) ==
  /\ reqs[s].op = "signup"
  /\ reqs[s].pc = "sg_customer"
  /\ UNCHANGED <<profiles, authUsers, mirror, env, clock>>
  /\ LET r == reqs[s]
     IN \/ /\ UNCHANGED customers
           /\ SignupCatch(s, r, "none")
        \/ /\ customers' = customers \cup {CustomerOf(r.in.email.v)}
           /\ Goto(s, [r EXCEPT !.pc = "sg_setcust",
                                !.loc = [user |-> r.loc.user,
                                         customer |-> Str(CustomerOf(r.in.email.v))]])

\* The update signup sends once the customer exists.
CustomerUpdate(customer) == [stripe_customer_id |-> customer]

\* The datastore answers that update; its error, if any, is not read.
SignupSetCustomer(s) ==
  /\ reqs[s].op = "signup"
  /\ reqs[s].pc = "sg_setcust"
  /\ UNCHANGED <<authUsers, customers, mirror, env, clock>>
  /\ \E fault \in BOOLEAN :
       LET r == reqs[s]
       IN /\ profiles' = IF fault THEN profiles
                         ELSE DbUpdate(profiles, "id", r.loc.user, CustomerUpdate(r.loc.customer))
          /\ Goto(s, [r EXCEPT !.pc = "sg_session",
                               !.loc = [user |-> r.loc.user, customer |-> r.loc.customer,
                                        dbError |-> IF fault THEN "fault" ELSE "none"]])

\* The gateway answers checkout.sessions.create.
SignupSession(s) ==
  /\ reqs[s].op = "signup"
  /\ reqs[s].pc = "sg_session"
  /\ UNCHANGED <<profiles, authUsers, customers, mirror, env, clock>>
  /\ LET r == reqs[s]
     IN \/ SignupCatch(s, r, r.loc.dbError)
        \/ Respond(s, r, 200, "url", r.loc.dbError)

(***************************************************************************)
(* The helpers of the dashboard: computeProfileCompletion,                 *)
(* formatDateLabel and mapProfileToMover.                                  *)
(***************************************************************************)
\* !profile: null and undefined are absent, a row object never is.
Absent(profile) == "t" \in DOMAIN profile /\ ~Truthy(profile)

\* The characters String.prototype.trim removes (of those the inputs carry).
Whitespace == {" ", "\t", "\n"}

RECURSIVE TrimStart(_)
TrimStart(s) ==
  IF Len(s) > 0 /\ SubSeq(s, 1, 1) \in Whitespace
  THEN TrimStart(SubSeq(s, 2, Len(s)))
  ELSE s

RECURSIVE TrimEnd(_)
TrimEnd(s) ==
  IF Len(s) > 0 /\ SubSeq(s, Len(s), Len(s)) \in Whitespace
  THEN TrimEnd(SubSeq(s, 1, Len(s) - 1))
  ELSE s

Trim(s) == TrimEnd(TrimStart(s))

\* String(v) of a string or an integer.
ToStr(x) == IF x.t = "num" THEN ToString(x.v) ELSE x.v

\* Math.round(n / d * 100) for 0 <= n <= d: the floor of the quotient plus 1/2.
RoundPercentDown(n, d) == (100 * n) \div d

RoundPercent(n, d) == (200 * n + d) \div (2 * d)

\* The columns computeProfileCompletion tracks.
CompletionFields ==
  <<"full_name", "business_name", "phone_e164", "city", "state", "logo_url">>

computeProfileCompletion(profile) ==
  IF Absent(profile) THEN 0
  ELSE LET fields == [i \in DOMAIN CompletionFields |-> Get(profile, CompletionFields[i])]
           filled == Cardinality({i \in DOMAIN fields :
                                    Truthy(fields[i]) /\ Trim(ToStr(fields[i])) # ""})
           total == IF Len(fields) # 0 THEN Len(fields) ELSE 1
       IN RoundPercent(filled, total)

\* The value of a decimal digit, -1 for any other character.
Digits == <<"0", "1", "2", "3", "4", "5", "6", "7", "8", "9">>

DigitVal(c) ==
  IF \E d \in DOMAIN Digits : Digits[d] = c
  THEN (CHOOSE d \in DOMAIN Digits : Digits[d] = c) - 1
  ELSE -1

\* The natural number a string of decimal digits writes, -1 for any other string.
RECURSIVE ParseNat(_)
ParseNat(s) ==
  IF Len(s) = 0 THEN -1
  ELSE LET last == DigitVal(SubSeq(s, Len(s), Len(s)))
           rest == SubSeq(s, 1, Len(s) - 1)
       IN IF last < 0 THEN -1
          ELSE IF Len(rest) = 0 THEN last
          ELSE LET hi == ParseNat(rest)
               IN IF hi < 0 THEN -1 ELSE 10 * hi + last

\* Not-a-Number: a number that is falsy and equals no number.
NaN == [t |-> "nan"]

\* Number(x) of a number or of a string (unsigned integers; whitespace is
\* trimmed and the empty string converts to 0).
ToNumber(x) ==
  IF x.t = "num" THEN x
  ELSE LET str == Trim(x.v)
       IN IF str = "" THEN Num(0)
          ELSE IF ParseNat(str) >= 0 THEN Num(ParseNat(str))
          ELSE NaN

\* Day count since 1970-01-01 of a calendar date (proleptic Gregorian).
DaysFromCivil(y, m, d) ==
  LET yy == IF m <= 2 THEN y - 1 ELSE y
      era == yy \div 400
      yoe == yy - era * 400
      doy == (153 * (IF m > 2 THEN m - 3 ELSE m + 9) + 2) \div 5 + d - 1
      doe == yoe * 365 + yoe \div 4 - yoe \div 100 + doy
  IN era * 146097 + doe - 719468

\* new Date(string) for the strings of the model, which are either of the form
\* "YYYY-MM-DDTHH:mm:ss.sssZ" that toISOString writes or no date in any form:
\* the instant in epoch seconds, or an invalid date.
ParseDate(str) ==
  LET part(a, b) == ParseNat(SubSeq(str, a, b))
      at(i) == SubSeq(str, i, i)
  IN IF /\ Len(str) = 24
        /\ at(5) = "-" /\ at(8) = "-" /\ at(11) = "T"
        /\ at(14) = ":" /\ at(17) = ":" /\ at(20) = "." /\ at(24) = "Z"
        /\ part(1, 4) >= 0
        /\ part(6, 7) \in 1..12
        /\ part(9, 10) \in 1..31
        /\ part(12, 13) \in 0..23
        /\ part(15, 16) \in 0..59
        /\ part(18, 19) \in 0..59
        /\ part(21, 23) >= 0
     THEN [valid |-> TRUE,
           secs |-> DaysFromCivil(part(1, 4), part(6, 7), part(9, 10)) * 86400
                      + part(12, 13) * 3600 + part(15, 16) * 60 + part(18, 19)]
     ELSE [valid |-> FALSE]

MonthShort ==
  <<"Jan", "Feb", "Mar", "Apr", "May", "Jun", "Jul", "Aug", "Sep", "Oct", "Nov", "Dec">>

\* toLocaleDateString("en-US", {month: "short", day: "numeric", year: "numeric"})
\* of an instant, for a process whose time zone is UTC.
DateLabel(secs) ==
  LET ymd == CivilFromDays(secs \div 86400)
  IN MonthShort[ymd[2]] \o " " \o ToString(ymd[3]) \o ", " \o ToString(ymd[1])

\* Every number of the model is within the range of Date, so new Date(n * 1000)
\* is a valid date.
formatDateLabel(isoOrMillis) ==
  IF ~Truthy(isoOrMillis) THEN "N/A"
  ELSE LET date == IF isoOrMillis.t = "num"
                   THEN [valid |-> TRUE, secs |-> isoOrMillis.v]
                   ELSE ParseDate(isoOrMillis.v)
       IN IF ~date.valid THEN "N/A" ELSE DateLabel(date.secs)

\* rating: 4.9, kept in tenths.
Rating == [t |-> "num", tenths |-> 49]

\* Whether the startingPrice of the view is converted from the column.
HasStartingPriceLoose(sp) == sp # JNull /\ sp # JUndef

HasStartingPrice(sp) == sp # JNull /\ sp # JUndef /\ sp # Str("")

\* The name of the view.
MoverNameBusinessFirst(profileRow) ==
  Or(Or(Get(profileRow, "business_name"), Get(profileRow, "full_name")), Str("Mover"))

MoverName(profileRow) ==
  Or(Or(Get(profileRow, "full_name"), Get(profileRow, "business_name")), Str("Mover"))

mapProfileToMover(profileRow) ==
  IF Absent(profileRow) THEN <<>>
  ELSE [id |-> Get(profileRow, "id"),
        name |-> MoverName(profileRow),
        email |-> Or(Get(profileRow, "email"), Str("")),
        phone |-> Or(Get(profileRow, "phone_e164"), Str("")),
        city |-> Or(Get(profileRow, "city"), Str("")),
        state |-> Or(Get(profileRow, "state"), Str("")),
        logo |-> Or(Get(profileRow, "logo_url"), Str("")),
        verified |-> Bool(TRUE),
        rating |-> Rating,
        jobsCompleted |-> Num(0),
        startingPrice |-> IF HasStartingPrice(Get(profileRow, "starting_price"))
                          THEN ToNumber(Get(profileRow, "starting_price"))
                          ELSE JUndef,
        features |-> <<>>,
        profileCompletion |-> Num(computeProfileCompletion(profileRow))]

(***************************************************************************)
(* GET /api/mover-dashboard                                                *)
(***************************************************************************)
DashboardQueries == {[email |-> Str(e)] : e \in Emails} \cup {[email |-> JUndef]}

DashboardReceive(s) ==
  /\ Free(s)
  /\ UNCHANGED <<profiles, authUsers, customers, mirror, env, clock>>
  /\ \E query \in DashboardQueries :
       LET r == [Idle EXCEPT !.op = "dashboard", !.in = query]
       IN IF ~Truthy(query.email)
          THEN Respond(s, r, 400, "Missing email", "none")
          ELSE Goto(s, [r EXCEPT !.pc = "db_select", !.calls = {"datastore"}])

\* The datastore answers select("*").eq("email", email).single().
DashboardSelect(s) ==
  /\ reqs[s].op = "dashboard"
  /\ reqs[s].pc = "db_select"
  /\ UNCHANGED <<profiles, authUsers, customers, mirror, env, clock>>
  /\ \E fault \in BOOLEAN :
       LET r == reqs[s]
           res == IF fault THEN DbFault
                  ELSE Single(profiles, Matching(profiles, "email", r.in.email))
       IN IF res.error = "PGRST116"
          THEN Respond(s, r, 404, "Profile not found", res.error)
          ELSE IF res.error # "none"
          THEN Respond(s, r, 500, "Profile lookup failed", res.error)
          ELSE Respond(s, r, 200, "ok", "none")

(***************************************************************************)
(* POST /api/update-profile                                                *)
(***************************************************************************)
EditBody(email, full_name, business_name, phone_e164, city, state, logo_url, starting_price) ==
  [email |-> email, full_name |-> full_name, business_name |-> business_name,
   phone_e164 |-> phone_e164, city |-> city, state |-> state, logo_url |-> logo_url,
   starting_price |-> starting_price]

\* Two edits of one account, and a request without an email.
EditBodies ==
  {EditBody(Str("a@b.com"), JUndef, Str("Acme Movers"), JUndef, Str("Austin"),
            Str("TX"), JUndef, Num(0)),
   EditBody(Str("a@b.com"), Str("Ann Lee"), Str(""), Str("+15550100"), JUndef, JUndef,
            Str("https://cdn.example/logo.png"), Num(150)),
   EditBody(JUndef, Str("Ann Lee"), JUndef, JUndef, JUndef, JUndef, JUndef, JUndef)}

\* An edit that names the account and supplies no column.
TouchEdit ==
  {EditBody(Str("a@b.com"), JUndef, JUndef, JUndef, JUndef, JUndef, JUndef, JUndef)}

\* The first of them alone.
OneEdit == {b \in EditBodies : b.email = JUndef \/ b.starting_price = Num(0)}

\* The columns of a route that copied the billing columns of the body too.
EditColumnsWithBilling ==
  {"full_name", "business_name", "phone_e164", "city", "state", "logo_url",
   "starting_price", "status", "current_period_end"}

EditColumns ==
  {"full_name", "business_name", "phone_e164", "city", "state", "logo_url",
   "starting_price"}

\* The updates object: the supplied columns and updated_at.
EditUpdatesAllColumns(body, now) ==
  [c \in EditColumns \cup {"updated_at"} |->
     IF c = "updated_at" THEN Str(SecondsToISO(now))
     ELSE IF body[c] = JUndef THEN JNull ELSE body[c]]

EditUpdates(body, now) ==
  [c \in {k \in EditColumns : body[k] # JUndef} \cup {"updated_at"} |->
     IF c = "updated_at" THEN Str(SecondsToISO(now)) ELSE body[c]]

\* Time does not run backwards: the clock is read at or after its last reading.
EditReceive(s, bodies) ==
  /\ Free(s)
  /\ UNCHANGED <<profiles, authUsers, customers, mirror, env>>
  /\ \E body \in bodies :
       LET r == [Idle EXCEPT !.op = "edit", !.in = body]
       IN IF ~Truthy(body.email)
          THEN /\ Respond(s, r, 400, "Missing email", "none")
               /\ UNCHANGED clock
          ELSE \E k \in clock..Len(Instants) :
                 /\ clock' = k
                 /\ Goto(s, [r EXCEPT !.pc = "ed_update",
                                      !.loc = [updates |-> EditUpdates(body, Instants[k])],
                                      !.calls = {"datastore"}])

\* The datastore answers update(updates).eq("email", email).select("*").single().
EditUpdate(s) ==
  /\ reqs[s].op = "edit"
  /\ reqs[s].pc = "ed_update"
  /\ UNCHANGED <<authUsers, customers, mirror, env, clock>>
  /\ LET r == reqs[s]
         after == DbUpdate(profiles, "email", r.in.email, r.loc.updates)
         res == Single(after, Matching(after, "email", r.in.email))
     IN \/ /\ UNCHANGED profiles
           /\ Respond(s, r, 500, "Failed to update profile", "fault")
        \/ /\ profiles' = after
           /\ IF res.error # "none"
              THEN Respond(s, r, 500, "Failed to update profile", res.error)
              ELSE EnterSync(s, [r EXCEPT !.loc = [user |-> res.data[1].id]], res.data[1])

(***************************************************************************)
(* The system.  Spec is the deployment whose mirror is not configured      *)
(* (AIRTABLE_API_KEY unset), so every sync returns at once; its clock      *)
(* shows the last of the instants throughout.                              *)
(***************************************************************************)
InitWith(e, k) ==
  /\ profiles = <<>>
  /\ authUsers = <<>>
  /\ customers = {}
  /\ mirror = <<>>
  /\ env = e
  /\ clock = k
  /\ reqs = [s \in Slots |-> Idle]

Init == InitWith([apiKey |-> FALSE, baseId |-> TRUE, tableName |-> TRUE], Len(Instants))

Next ==
  \E s \in Slots :
    \/ WebhookReceive(s, EventTypes)
    \/ WebhookSelect(s)
    \/ WebhookUpdate(s)
    \/ CancelReceive(s)
    \/ CancelSelect(s)
    \/ CancelGateway(s)
    \/ CancelWriteBack(s)
    \/ SignupReceive(s)
    \/ SignupAuth(s)
    \/ SignupInsert(s)
    \/ SignupCustomer(s)
    \/ SignupSetCustomer(s)
    \/ SignupSession(s)
    \/ EditReceive(s, OneEdit)
    \/ EditUpdate(s)

Spec == Init /\ [][Next]_vars

(***************************************************************************)
(* SpecLookup adds the dashboard route, which reads a profile and writes   *)
(* nothing.                                                                *)
(***************************************************************************)
NextLookup ==
  \/ Next
  \/ \E s \in Slots : DashboardReceive(s) \/ DashboardSelect(s)

SpecLookup == Init /\ [][NextLookup]_vars

(***************************************************************************)
(* SpecMirror is the deployment whose mirror is configured                 *)
(* (AIRTABLE_API_KEY and AIRTABLE_BASE_ID set): signups and edits go on    *)
(* to the mirror's lookup and write.                                       *)
(***************************************************************************)
InitMirror == InitWith([apiKey |-> TRUE, baseId |-> TRUE, tableName |-> TRUE], Len(Instants))

NextMirror ==
  \E s \in Slots :
    \/ WebhookReceive(s, EventTypes)
    \/ WebhookSelect(s)
    \/ WebhookUpdate(s)
    \/ CancelReceive(s)
    \/ CancelSelect(s)
    \/ CancelGateway(s)
    \/ CancelWriteBack(s)
    \/ SignupReceive(s)
    \/ SignupAuth(s)
    \/ SignupInsert(s)
    \/ SyncSelect(s)
    \/ SyncWrite(s)
    \/ SignupCustomer(s)
    \/ SignupSetCustomer(s)
    \/ SignupSession(s)
    \/ EditReceive(s, OneEdit)
    \/ EditUpdate(s)

SpecMirror == InitMirror /\ [][NextMirror]_vars

(***************************************************************************)
(* SpecRoutes is that deployment with the dashboard route as well: every   *)
(* route that touches the datastore, beside a configured mirror.           *)
(***************************************************************************)
NextRoutes ==
  \/ NextMirror
  \/ \E s \in Slots : DashboardReceive(s) \/ DashboardSelect(s)

SpecRoutes == InitMirror /\ [][NextRoutes]_vars

(***************************************************************************)
(* SpecForged is the deployment of Spec whose update-profile requests      *)
(* carry, beside the columns the route reads, properties named after the   *)
(* columns it does not read.                                               *)
(***************************************************************************)
ForgedColumns ==
  [id |-> Str("u_c"), plan |-> Str("Pro"), status |-> Str("active"),
   stripe_customer_id |-> Str("cus_x"), stripe_subscription_id |-> Str("sub_x"),
   current_period_end |-> Str("2099-01-01T00:00:00.000Z")]

ForgedEdits == {body @@ ForgedColumns : body \in OneEdit}

NextForged ==
  \E s \in Slots :
    \/ WebhookReceive(s, EventTypes)
    \/ WebhookSelect(s)
    \/ WebhookUpdate(s)
    \/ CancelReceive(s)
    \/ CancelSelect(s)
    \/ CancelGateway(s)
    \/ CancelWriteBack(s)
    \/ SignupReceive(s)
    \/ SignupAuth(s)
    \/ SignupInsert(s)
    \/ SignupCustomer(s)
    \/ SignupSetCustomer(s)
    \/ SignupSession(s)
    \/ EditReceive(s, ForgedEdits)
    \/ EditUpdate(s)

SpecForged == Init /\ [][NextForged]_vars

(***************************************************************************)
(* SpecSync is the same deployment seen from the mirror: the routes that   *)
(* call the sync (signup and update-profile, with both edits).  The        *)
(* webhook and the cancellation write status and billing columns only,     *)
(* which no mirror field is built from.                                    *)
(***************************************************************************)
NextSync ==
  \E s \in Slots :
    \/ SignupReceive(s)
    \/ SignupAuth(s)
    \/ SignupInsert(s)
    \/ SyncSelect(s)
    \/ SyncWrite(s)
    \/ SignupCustomer(s)
    \/ SignupSetCustomer(s)
    \/ SignupSession(s)
    \/ EditReceive(s, EditBodies)
    \/ EditUpdate(s)

SpecSync == InitMirror /\ [][NextSync]_vars

(***************************************************************************)
(* SpecEnv is the same routes under every setting of the mirror's three    *)
(* environment variables.                                                  *)
(***************************************************************************)
InitEnv ==
  \E k \in BOOLEAN, b \in BOOLEAN, t \in BOOLEAN :
    InitWith([apiKey |-> k, baseId |-> b, tableName |-> t], Len(Instants))

SpecEnv == InitEnv /\ [][NextSync]_vars

(***************************************************************************)
(* SpecFields exercises the field set the sync builds.  The datastore      *)
(* holds one profile, in any of the column values the routes can have      *)
(* stored (signup stores "" for an absent name or phone and whatever plan  *)
(* the body carries, "" and null included; edits store what they are       *)
(* given), and an update-profile request that supplies no column hands     *)
(* the row to the sync.                                                    *)
(***************************************************************************)
StoredRows ==
  {[InsertedRow(Str("u_a"), SignupBody(Str("a@b.com"), Str("x"), fn, bn, ph, JUndef, pl))
      EXCEPT !.city = ci, !.state = st, !.logo_url = lo, !.starting_price = sp] :
     fn \in {JUndef, Str("Ann Lee")},
     bn \in {JUndef, Str("Acme Movers")},
     ph \in {JUndef, Str("+15550100")},
     pl \in {JUndef, JNull, Str(""), Str("Pro")},
     ci \in {JNull, Str("Austin")},
     st \in {JNull, Str("TX")},
     lo \in {JNull, Str(""), Str("https://cdn.example/logo.png")},
     sp \in {JNull, Num(0), Num(150)}}

InitFields ==
  \E row \in StoredRows :
    /\ profiles = ("u_a" :> row)
    /\ authUsers = ("a@b.com" :> "u_a")
    /\ customers = {}
    /\ mirror = <<>>
    /\ env = [apiKey |-> TRUE, baseId |-> TRUE, tableName |-> TRUE]
    /\ clock = Len(Instants)
    /\ reqs = [s \in Slots |-> Idle]

NextFields ==
  \E s \in Slots :
    \/ EditReceive(s, TouchEdit)
    \/ EditUpdate(s)
    \/ SyncSelect(s)
    \/ SyncWrite(s)

SpecFields == InitFields /\ [][NextFields]_vars

(***************************************************************************)
(* SpecRace is overlapping update-profile requests for one account.  It    *)
(* starts after the signup of a@b.com has ended in success, with the       *)
(* mirror configured; the signup's own sync either created the record or   *)
(* was caught failing and left the mirror empty.  The clock still runs.    *)
(***************************************************************************)
RaceBody == SignupBody(Str("a@b.com"), Str("x"), JUndef, JUndef, JUndef, JUndef, JUndef)

SignedUpRow == Merge(InsertedRow(Str("u_a"), RaceBody), CustomerUpdate(Str("cus_a")))

SignupRecord == MirrorCreate(<<>>, MirrorFields(SignupSyncRow(Str("u_a"), RaceBody)))

InitRaceWith(m) ==
  /\ profiles = ("u_a" :> SignedUpRow)
  /\ authUsers = ("a@b.com" :> "u_a")
  /\ customers = {"cus_a"}
  /\ mirror = m
  /\ env = [apiKey |-> TRUE, baseId |-> TRUE, tableName |-> TRUE]
  /\ clock = 1
  /\ reqs = [s \in Racers |-> Idle]

InitRace == \E m \in {<<>>, SignupRecord} : InitRaceWith(m)

NextRace ==
  \E s \in Racers :
    \/ EditReceive(s, EditBodies)
    \/ EditUpdate(s)
    \/ SyncSelect(s)
    \/ SyncWrite(s)

SpecRace == InitRace /\ [][NextRace]_vars

(***************************************************************************)
(* SpecConverge is the same requests with a mirror that never fails: the   *)
(* signup's sync created the record, and every lookup and write of a sync  *)
(* is answered.                                                            *)
(***************************************************************************)
InitConverge == InitRaceWith(SignupRecord)

SyncSelectAnswered(s) ==
  /\ SyncSelect(s)
  /\ reqs'[s].pc = "sy_write"

SyncWriteAnswered(s) ==
  /\ SyncWrite(s)
  /\ mirror' = IF reqs[s].loc.rec > 0
               THEN MirrorUpdate(mirror, reqs[s].loc.rec, MirrorFields(reqs[s].loc.row))
               ELSE MirrorCreate(mirror, MirrorFields(reqs[s].loc.row))

NextConverge ==
  \E s \in Racers :
    \/ EditReceive(s, EditBodies)
    \/ EditUpdate(s)
    \/ SyncSelectAnswered(s)
    \/ SyncWriteAnswered(s)

SpecConverge == InitConverge /\ [][NextConverge]_vars

(***************************************************************************)
(* SpecSignups is overlapping signup requests, from the empty datastore,   *)
(* with the mirror not configured.                                         *)
(***************************************************************************)
InitSignups ==
  /\ profiles = <<>>
  /\ authUsers = <<>>
  /\ customers = {}
  /\ mirror = <<>>
  /\ env = [apiKey |-> FALSE, baseId |-> TRUE, tableName |-> TRUE]
  /\ clock = Len(Instants)
  /\ reqs = [s \in Racers |-> Idle]

NextSignups ==
  \E s \in Racers :
    \/ SignupReceive(s)
    \/ SignupAuth(s)
    \/ SignupInsert(s)
    \/ SignupCustomer(s)
    \/ SignupSetCustomer(s)
    \/ SignupSession(s)

SpecSignups == InitSignups /\ [][NextSignups]_vars

(***************************************************************************)
(* SpecLive is the SpecRoutes deployment in which a datastore or identity  *)
(* call may also throw (the connection fails before the call is carried    *)
(* out) instead of returning a result, and in which every call a handler   *)
(* awaits does return or throw: a handler that can take its next step      *)
(* takes it.                                                               *)
(***************************************************************************)
\* The catch blocks of the webhook, dashboard and update-profile routes.
WebhookCatch(s, r) == Respond(s, r, 500, "Server Error", "none")

DashboardCatch(s, r) == Respond(s, r, 500, "Server error", "none")

EditCatch(s, r) == Respond(s, r, 500, "Server error", "none")

\* The labels at which a handler awaits the datastore or the identity provider.
DatastoreAwaits ==
  {"co_select", "su_select", "co_update", "su_update", "db_select", "ed_update",
   "sg_auth", "sg_insert", "sg_setcust", "cn_select", "cn_update"}

\* The awaited call throws: control passes to the route's catch.
CallThrows(s) ==
  /\ reqs[s].pc \in DatastoreAwaits
  /\ UNCHANGED <<profiles, authUsers, customers, mirror, env, clock>>
  /\ LET r == reqs[s]
     IN CASE r.op = "webhook" -> WebhookCatch(s, r)
          [] r.op = "dashboard" -> DashboardCatch(s, r)
          [] r.op = "edit" -> EditCatch(s, r)
          [] r.op = "signup" -> SignupCatch(s, r, "none")
          [] r.op = "cancel" -> CancelCatch(s, r)

\* A new request arrives at slot s.
Receive(s) ==
  \/ WebhookReceive(s, EventTypes)
  \/ CancelReceive(s)
  \/ SignupReceive(s)
  \/ EditReceive(s, OneEdit)
  \/ DashboardReceive(s)

\* The handler running in slot s takes its next step.
Continue(s) ==
  \/ WebhookSelect(s)
  \/ WebhookUpdate(s)
  \/ CancelSelect(s)
  \/ CancelGateway(s)
  \/ CancelWriteBack(s)
  \/ SignupAuth(s)
  \/ SignupInsert(s)
  \/ SyncSelect(s)
  \/ SyncWrite(s)
  \/ SignupCustomer(s)
  \/ SignupSetCustomer(s)
  \/ SignupSession(s)
  \/ EditUpdate(s)
  \/ DashboardSelect(s)
  \/ CallThrows(s)

NextLive == \E s \in Slots : Receive(s) \/ Continue(s)

SpecLive == InitMirror /\ [][NextLive]_vars /\ \A s \in Slots : WF_vars(Continue(s))

(***************************************************************************)
(* SpecHelpers calls the three helpers, one call per behaviour, on         *)
(* arguments drawn from the values a column or a caller can hand them.     *)
(***************************************************************************)
BaseRow ==
  InsertedRow(Str("u_a"), SignupBody(Str("a@b.com"), Str("x"), JUndef, JUndef, JUndef,
                                     JUndef, JUndef))

\* Rows in every combination of unset, empty, blank and filled tracked columns.
CompletionRows ==
  {[BaseRow EXCEPT !.full_name = fn, !.business_name = bn, !.phone_e164 = ph,
                   !.city = ci, !.state = st, !.logo_url = lo] :
     fn \in {JNull, Str(""), Str("  "), Str("Ann Lee")},
     bn \in {JNull, Str(""), Str("\t "), Str("Acme Movers")},
     ph \in {JNull, Str(""), Str(" "), Str("+15550100")},
     ci \in {JNull, Str(""), Str(" \n"), Str(" Austin ")},
     st \in {JNull, Str(""), Str(" "), Str("TX")},
     lo \in {JNull, Str(""), Str(" "), Str("https://cdn.example/logo.png")}}

StartingPrices ==
  {JNull, JUndef, Str(""), Num(0), Num(150), Str("0"), Str("150"), Str(" 75 "), Str(" "),
   Str("abc")}

\* Rows in every combination of names and starting prices.
PriceRows ==
  {[c \in DOMAIN BaseRow \ (IF sp = JUndef THEN {"starting_price"} ELSE {}) |->
      CASE c = "full_name" -> fn
        [] c = "business_name" -> bn
        [] c = "starting_price" -> sp
        [] OTHER -> BaseRow[c]] :
     fn \in {JNull, Str(""), Str("Ann Lee")},
     bn \in {JNull, Str(""), Str("Acme Movers")},
     sp \in StartingPrices}

HelperProfiles == CompletionRows \cup PriceRows \cup {JNull, JUndef}

\* The instants handed to formatDateLabel as numbers.
LabelInstants ==
  {0, 1, 86399, 86400, 951782400, 951868799, 1700000000, 1709251199, 1730003600}

DateInputs ==
  {JNull, JUndef, Str(""), Str("not-a-date"), Str("2023-13-14T22:13:20.000Z")}
  \cup {Num(n) : n \in LabelInstants}
  \cup {Str(SecondsToISO(n)) : n \in LabelInstants}

HelperCalls ==
  {[Idle EXCEPT !.op = fn, !.pc = "call", !.in = [profile |-> p]] :
     fn \in {"score", "project"}, p \in HelperProfiles}
  \cup {[Idle EXCEPT !.op = "format", !.pc = "call", !.in = [value |-> v]] : v \in DateInputs}

InitHelpers ==
  /\ profiles = <<>>
  /\ authUsers = <<>>
  /\ customers = {}
  /\ mirror = <<>>
  /\ env = [apiKey |-> FALSE, baseId |-> TRUE, tableName |-> TRUE]
  /\ clock = Len(Instants)
  /\ \E call \in HelperCalls : reqs = [s \in Slots |-> IF s = 1 THEN call ELSE Idle]

Return(s, value) ==
  /\ reqs[s].pc = "call"
  /\ reqs' = [reqs EXCEPT ![s].pc = "done", ![s].loc = [result |-> value]]
  /\ UNCHANGED <<profiles, authUsers, customers, mirror, env, clock>>

ScoreCall(s) ==
  /\ reqs[s].op = "score"
  /\ Return(s, computeProfileCompletion(reqs[s].in.profile))

ProjectCall(s) ==
  /\ reqs[s].op = "project"
  /\ Return(s, mapProfileToMover(reqs[s].in.profile))

FormatCall(s) ==
  /\ reqs[s].op = "format"
  /\ Return(s, formatDateLabel(reqs[s].in.value))

NextHelpers == \E s \in Slots : ScoreCall(s) \/ ProjectCall(s) \/ FormatCall(s)

SpecHelpers == InitHelpers /\ [][NextHelpers]_vars

(***************************************************************************)
(* One delivery run on its own: the lookup and the update of a verified    *)
(* event, both answered by the datastore without error and with no other   *)
(* handler's step in between.                                              *)
(***************************************************************************)
Deliver(p, ev) ==
  IF Branch(ev) = "none" THEN p
  ELSE LET res == Single(p, Matching(p, "stripe_customer_id", ev.customer))
       IN IF res.data = <<>> THEN p
          ELSE DbUpdate(p, "id", res.data[1].id,
                        IF Branch(ev) = "co_select" THEN CheckoutUpdate
                        ELSE SubscriptionUpdate(ev))

(***************************************************************************)
(* Properties.  A datastore call either is executed and answers without    *)
(* error, or fails and changes nothing; what a handler "sets" is said of   *)
(* the calls the datastore executes.                                       *)
(***************************************************************************)
\* The handler in slot s took the step.
Stepped(s) == reqs'[s] # reqs[s]

\* Slot s holds the response of a handler of the given route.
Answered(s, op) == reqs[s].op = op /\ reqs[s].pc = "done"

\* toISOString() of the gateway's two period ends, from the calendar.
ReferenceISO(e) ==
  CASE e = 1700000000 -> "2023-11-14T22:13:20.000Z"
    [] e = 1709251199 -> "2024-02-29T23:59:59.000Z"

\* Every customer id an event can name.
AllCustomers == {CustomerOf(e) : e \in Emails} \cup {ForeignCustomer}

\* C1: a webhook delivery whose signature check fails is answered 400 in the
\* step that receives it and changes no field of any profile, whatever its
\* event type and payload.
C1_BadSignatureRejected ==
  [][\A s \in Slots :
       (Stepped(s) /\ reqs'[s].op = "webhook" /\ ~reqs'[s].in.verified)
         => /\ reqs'[s].pc = "done"
            /\ reqs'[s].loc.status = 400
            /\ profiles' = profiles]_vars

C1_Witness ==
  \E s \in Slots :
    /\ Answered(s, "webhook")
    /\ ~reqs[s].in.verified
    /\ reqs[s].loc.status = 400
    /\ \E i \in DOMAIN profiles :
         /\ profiles[i].stripe_customer_id = Str("cus_a")
         /\ profiles[i].status = Str("pending")

\* C2: for a verified checkout.session.completed event whose customer equals the
\* stripe_customer_id of a profile, the lookup hands that profile's id to the
\* update (or the datastore fails the lookup), and the update the datastore
\* executes sets that profile's status to "active" and changes no other field
\* of it, no other profile and not the set of profiles; a failed update
\* changes nothing.
C2_CheckoutActivates ==
  [][\A s \in Slots :
       LET r == reqs[s]
           r2 == reqs'[s]
       IN /\ (Stepped(s) /\ r.op = "webhook" /\ r.pc = "co_select")
               => /\ profiles' = profiles
                  /\ \A i \in DOMAIN profiles :
                       profiles[i].stripe_customer_id = r.in.customer
                         => \/ r2.pc = "co_update" /\ r2.loc.user = profiles[i].id
                            \/ r2.pc = "done" /\ r2.loc.dbError = "fault"
          /\ (Stepped(s) /\ r.op = "webhook" /\ r.pc = "co_update")
               => /\ r2.pc = "done"
                  /\ r2.loc.status = 200
                  /\ DOMAIN profiles' = DOMAIN profiles
                  /\ \A i \in DOMAIN profiles :
                       profiles'[i] =
                         IF r2.loc.dbError = "none" /\ profiles[i].id = r.loc.user
                         THEN [profiles[i] EXCEPT !.status = Str("active")]
                         ELSE profiles[i]]_vars

C2_Witness ==
  \E s \in Slots :
    /\ Answered(s, "webhook")
    /\ reqs[s].in.verified
    /\ reqs[s].in.type = "checkout.session.completed"
    /\ reqs[s].loc.dbError = "none"
    /\ DOMAIN profiles = {"u_a", "u_c"}
    /\ profiles["u_a"].status = Str("active")
    /\ profiles["u_a"].stripe_subscription_id = Str("sub_B")
    /\ profiles["u_c"].status = Str("pending")

\* C3: for a verified customer.subscription.updated event whose customer
\* matches a profile, the lookup hands that profile's id to the update (or the
\* datastore fails the lookup), and the update the datastore executes sets that
\* profile's stripe_subscription_id to the event's subscription id and its
\* current_period_end to the ISO date-time of the event's epoch seconds, and
\* changes nothing else: not its status, no other profile.
C3_SubscriptionUpdated ==
  [][\A s \in Slots :
       LET r == reqs[s]
           r2 == reqs'[s]
       IN /\ (Stepped(s) /\ r.op = "webhook" /\ r.pc = "su_select")
               => /\ profiles' = profiles
                  /\ \A i \in DOMAIN profiles :
                       profiles[i].stripe_customer_id = r.in.customer
                         => \/ r2.pc = "su_update" /\ r2.loc.user = profiles[i].id
                            \/ r2.pc = "done" /\ r2.loc.dbError = "fault"
          /\ (Stepped(s) /\ r.op = "webhook" /\ r.pc = "su_update")
               => /\ r2.pc = "done"
                  /\ r2.loc.status = 200
                  /\ DOMAIN profiles' = DOMAIN profiles
                  /\ \A i \in DOMAIN profiles :
                       profiles'[i] =
                         IF r2.loc.dbError = "none" /\ profiles[i].id = r.loc.user
                         THEN [profiles[i] EXCEPT
                                 !.stripe_subscription_id = r.in.id,
                                 !.current_period_end =
                                    Str(ReferenceISO(r.in.current_period_end))]
                         ELSE profiles[i]]_vars

C3_Witness ==
  \E s \in Slots :
    /\ Answered(s, "webhook")
    /\ reqs[s].in.verified
    /\ reqs[s].in.type = "customer.subscription.updated"
    /\ reqs[s].loc.dbError = "none"
    /\ "u_a" \in DOMAIN profiles
    /\ profiles["u_a"].stripe_subscription_id = Str("sub_B")
    /\ profiles["u_a"].current_period_end = Str("2024-02-29T23:59:59.000Z")
    /\ profiles["u_a"].status = Str("pending")

\* C4: a verified checkout.session.completed or customer.subscription.updated
\* event whose customer matches no profile changes no profile, neither when it
\* is received nor when its lookup is answered, and the answer to the lookup
\* ends the delivery with 200.
C4_NoMatchAcknowledged ==
  [][\A s \in Slots :
       LET r == reqs[s]
           r2 == reqs'[s]
       IN /\ (Stepped(s) /\ Free(s) /\ r2.op = "webhook" /\ r2.in.verified)
               => profiles' = profiles
          /\ (/\ Stepped(s)
              /\ r.op = "webhook"
              /\ r.pc \in {"co_select", "su_select"}
              /\ \A i \in DOMAIN profiles : profiles[i].stripe_customer_id # r.in.customer)
               => /\ r2.pc = "done"
                  /\ r2.loc.status = 200
                  /\ profiles' = profiles]_vars

C4_Witness ==
  \E s \in Slots :
    /\ Answered(s, "webhook")
    /\ reqs[s].in.verified
    /\ reqs[s].in.type \in {"checkout.session.completed", "customer.subscription.updated"}
    /\ reqs[s].loc.dbError = "PGRST116"
    /\ reqs[s].loc.status = 200
    /\ \E i \in DOMAIN profiles : profiles[i].stripe_customer_id = Str("cus_a")

\* C5: a verified event of any type other than checkout.session.completed and
\* customer.subscription.updated is answered 200 in the step that receives it,
\* and that step changes no profile and no record of the mirror.
C5_OtherKindsIgnored ==
  [][\A s \in Slots :
       (/\ Stepped(s)
        /\ Free(s)
        /\ reqs'[s].op = "webhook"
        /\ reqs'[s].in.verified
        /\ reqs'[s].in.type \notin {"checkout.session.completed",
                                    "customer.subscription.updated"})
         => /\ reqs'[s].pc = "done"
            /\ reqs'[s].loc.status = 200
            /\ profiles' = profiles
            /\ mirror' = mirror]_vars

C5_Witness ==
  \E s \in Slots :
    /\ Answered(s, "webhook")
    /\ reqs[s].in.verified
    /\ reqs[s].in.type = "invoice.paid"
    /\ reqs[s].loc.status = 200
    /\ mirror # <<>>
    /\ \E i \in DOMAIN profiles :
         /\ profiles[i].stripe_customer_id = Str("cus_a")
         /\ profiles[i].status = Str("pending")

\* The place of a status in pending -> active -> cancelling -> cancelled.
Rank(st) ==
  CASE st = Str("pending") -> 1
    [] st = Str("active") -> 2
    [] st = Str("cancelling") -> 3
    [] st = Str("cancelled") -> 4
    [] OTHER -> 0

\* C6: in every step, a profile's status stays as it is, or is set to "active"
\* by the update of a checkout.session.completed delivery, or moves forward
\* along pending -> active -> cancelling -> cancelled, and never from pending
\* directly to cancelling.
C6_StatusMovesForward ==
  [][\A i \in DOMAIN profiles \cap DOMAIN profiles' :
       LET a == profiles[i].status
           b == profiles'[i].status
       IN \/ a = b
          \/ /\ b = Str("active")
             /\ \E s \in Slots :
                  Stepped(s) /\ reqs[s].op = "webhook" /\ reqs[s].pc = "co_update"
          \/ /\ Rank(a) < Rank(b)
             /\ ~(a = Str("pending") /\ b = Str("cancelling"))]_vars

\* C7: delivering the identical verified customer.subscription.updated or
\* checkout.session.completed event a second time, right after the first, to
\* any profile table the service reaches, leaves the table as the first delivery
\* left it; and the update step of every delivery the datastore executes is
\* that first delivery.
C7_RedeliveryIdempotent ==
  /\ [](\A c \in AllCustomers : \A ev \in EventsAbout(c, EventTypes) :
          Deliver(Deliver(profiles, ev), ev) = Deliver(profiles, ev))
  /\ [][\A s \in Slots :
          (/\ Stepped(s)
           /\ reqs[s].op = "webhook"
           /\ reqs[s].pc \in {"co_update", "su_update"}
           /\ reqs'[s].loc.dbError = "none")
            => /\ profiles' = Deliver(profiles, reqs[s].in)
               /\ Deliver(profiles', reqs[s].in) = profiles']_vars

C7_Witness ==
  \E s \in Slots :
    /\ Answered(s, "webhook")
    /\ reqs[s].in.verified
    /\ reqs[s].in.type = "customer.subscription.updated"
    /\ reqs[s].loc.dbError = "none"
    /\ \E i \in DOMAIN profiles :
         /\ profiles[i].stripe_customer_id = Str("cus_a")
         /\ profiles[i].stripe_subscription_id = Str("sub_A")
         /\ profiles[i].status = Str("cancelling")
    /\ \E ev \in EventsAbout("cus_a", EventTypes) : Deliver(profiles, ev) # profiles

\* C8: when the lookup of a cancel request is answered and the profile of the
\* request's email has a null (or empty) stripe_subscription_id, the request
\* ends there: it is answered 400 "No active subscription found for this user"
\* (500 when the datastore fails the lookup), no call to the gateway has been
\* or will be issued for it, and no profile changes.
C8_CancelWithoutSubscription ==
  [][\A s \in Slots :
       LET r == reqs[s]
           r2 == reqs'[s]
       IN (/\ Stepped(s)
           /\ r.op = "cancel"
           /\ r.pc = "cn_select"
           /\ \E i \in DOMAIN profiles :
                /\ profiles[i].email = r.in.email
                /\ ~Truthy(profiles[i].stripe_subscription_id))
            => /\ r2.pc = "done"
               /\ "gateway" \notin r.calls \cup r2.calls
               /\ profiles' = profiles
               /\ \/ /\ r2.loc.status = 400
                     /\ r2.loc.msg = "No active subscription found for this user"
                  \/ /\ r2.loc.status = 500
                     /\ r2.loc.dbError = "fault"]_vars

C8_Witness ==
  \E s \in Slots :
    /\ Answered(s, "cancel")
    /\ reqs[s].in.email = Str("a@b.com")
    /\ reqs[s].loc.status = 400
    /\ reqs[s].loc.msg = "No active subscription found for this user"
    /\ "gateway" \notin reqs[s].calls
    /\ "u_a" \in DOMAIN profiles
    /\ profiles["u_a"].stripe_subscription_id = JNull
    /\ profiles["u_a"].status = Str("active")

\* C9: a cancel request whose profile has a stripe_subscription_id goes from the
\* lookup to the gateway call for that subscription (unless the datastore fails
\* the lookup); no step of a cancel request before the write-back changes a
\* profile; the write-back comes after the gateway's answer, and when the
\* datastore executes it, it sets that profile's status to "cancelling", its
\* stripe_subscription_id to the id in the answer and its current_period_end to
\* the ISO date-time of the answer's epoch seconds, and changes nothing else.
C9_CancelAtPeriodEnd ==
  [][\A s \in Slots :
       LET r == reqs[s]
           r2 == reqs'[s]
       IN /\ (Stepped(s) /\ r.op = "cancel" /\ r.pc = "cn_select")
               => \A i \in DOMAIN profiles :
                    (/\ profiles[i].email = r.in.email
                     /\ Truthy(profiles[i].stripe_subscription_id))
                      => \/ /\ r2.pc = "cn_gateway"
                            /\ "gateway" \in r2.calls
                            /\ r2.loc.id = profiles[i].id
                            /\ r2.loc.sub = profiles[i].stripe_subscription_id
                         \/ /\ r2.pc = "done"
                            /\ r2.loc.dbError = "fault"
          /\ (Stepped(s) /\ r.op = "cancel" /\ r.pc = "cn_gateway" /\ r2.pc # "done")
               => /\ r2.pc = "cn_update"
                  /\ r2.loc.id = r.loc.id
                  /\ r2.loc.updatedSub.id = r.loc.sub
          /\ (Stepped(s) /\ r2.op = "cancel" /\ r.pc # "cn_update")
               => profiles' = profiles
          /\ (Stepped(s) /\ r.op = "cancel" /\ r.pc = "cn_update")
               => /\ "gateway" \in r.calls
                  /\ r2.pc = "done"
                  /\ DOMAIN profiles' = DOMAIN profiles
                  /\ \A i \in DOMAIN profiles :
                       profiles'[i] =
                         IF r2.loc.dbError = "none" /\ profiles[i].id = r.loc.id
                         THEN [profiles[i] EXCEPT
                                 !.status = Str("cancelling"),
                                 !.stripe_subscription_id = r.loc.updatedSub.id,
                                 !.current_period_end =
                                    Str(ReferenceISO(r.loc.updatedSub.current_period_end))]
                         ELSE profiles[i]]_vars

C9_Witness ==
  \E s \in Slots :
    /\ Answered(s, "cancel")
    /\ reqs[s].in.email = Str("a@b.com")
    /\ reqs[s].loc.status = 200
    /\ reqs[s].loc.dbError = "none"
    /\ "gateway" \in reqs[s].calls
    /\ "u_a" \in DOMAIN profiles
    /\ profiles["u_a"].status = Str("cancelling")
    /\ profiles["u_a"].stripe_subscription_id = Str("sub_A")
    /\ profiles["u_a"].current_period_end = Str("2024-02-29T23:59:59.000Z")

\* C10: the insert of a signup that has an email and a password and no plan
\* creates the account's profile with status "pending" and plan "Starter"; when
\* that signup ends in success with its datastore calls executed, the profile
\* carries the gateway customer the signup created, so that a delivery of a
\* verified checkout.session.completed event for that customer finds it and
\* sets its status to "active", as the update of every such delivery does.
C10_SignupThenCheckout ==
  [][\A s \in Slots :
       LET r == reqs[s]
           r2 == reqs'[s]
       IN /\ (/\ Stepped(s)
              /\ r.op = "signup"
              /\ r.pc = "sg_insert"
              /\ r.in.plan = JUndef
              /\ r2.pc # "done")
               => /\ r.loc.user.v \notin DOMAIN profiles
                  /\ DOMAIN profiles' = DOMAIN profiles \cup {r.loc.user.v}
                  /\ profiles'[r.loc.user.v].email = r.in.email
                  /\ profiles'[r.loc.user.v].status = Str("pending")
                  /\ profiles'[r.loc.user.v].plan = Str("Starter")
          /\ (/\ Stepped(s)
              /\ r.op = "signup"
              /\ r.pc = "sg_session"
              /\ r2.loc.status = 200
              /\ r2.loc.dbError = "none")
               => /\ r.loc.customer = Str(CustomerOf(r.in.email.v))
                  /\ profiles[r.loc.user.v].email = r.in.email
                  /\ profiles[r.loc.user.v].stripe_customer_id = r.loc.customer
                  /\ Deliver(profiles, [verified |-> TRUE,
                                        type |-> "checkout.session.completed",
                                        customer |-> r.loc.customer])[r.loc.user.v].status
                       = Str("active")
          /\ (/\ Stepped(s)
              /\ r.op = "webhook"
              /\ r.pc = "co_update"
              /\ r2.loc.dbError = "none")
               => /\ profiles' = Deliver(profiles, r.in)
                  /\ \A i \in DOMAIN profiles :
                       profiles[i].stripe_customer_id = r.in.customer
                         => profiles'[i].status = Str("active")]_vars

C10_Witness ==
  \E s \in Slots :
    /\ Answered(s, "webhook")
    /\ reqs[s].in.verified
    /\ reqs[s].in.type = "checkout.session.completed"
    /\ reqs[s].loc.dbError = "none"
    /\ "u_a" \in DOMAIN profiles
    /\ profiles["u_a"].email = Str("a@b.com")
    /\ profiles["u_a"].plan = Str("Starter")
    /\ profiles["u_a"].stripe_customer_id = Str("cus_a")
    /\ profiles["u_a"].stripe_subscription_id = JNull
    /\ profiles["u_a"].status = Str("active")

\* C11: whatever the mirror answers to a sync's lookup or write, failure
\* included, the step changes no profile, account or customer; the profile the
\* route wrote is there; and the route goes on exactly as after a successful
\* sync: update-profile answers 200, signup goes on to create the gateway
\* customer with its request and account unchanged.
C11_MirrorFailureSwallowed ==
  [][\A s \in Slots :
       LET r == reqs[s]
           r2 == reqs'[s]
       IN (Stepped(s) /\ r.pc \in {"sy_select", "sy_write"})
            => /\ profiles' = profiles
               /\ authUsers' = authUsers
               /\ customers' = customers
               /\ \E i \in DOMAIN profiles : profiles[i].email = r.in.email
               /\ \/ /\ r.pc = "sy_select"
                     /\ r2.pc = "sy_write"
                     /\ mirror' = mirror
                  \/ /\ r.op = "edit"
                     /\ r2.op = "edit"
                     /\ r2.pc = "done"
                     /\ r2.loc.status = 200
                  \/ /\ r.op = "signup"
                     /\ r2 = [op |-> "signup", pc |-> "sg_customer", in |-> r.in,
                              loc |-> [user |-> r.loc.user],
                              calls |-> r.calls \cup {"gateway"}]]_vars

C11_Witness ==
  \E s \in Slots :
    /\ Answered(s, "edit")
    /\ reqs[s].loc.status = 200
    /\ "mirror" \in reqs[s].calls
    /\ "u_a" \in DOMAIN profiles
    /\ profiles["u_a"].city = Str("Austin")
    /\ \A i \in 1..Len(mirror) :
         mirror[i].fields.Email = Str("a@b.com") => mirror[i].fields.City # Str("Austin")

\* C12: when AIRTABLE_API_KEY, AIRTABLE_BASE_ID or AIRTABLE_TABLE_NAME is not
\* set, no step makes a mirror call or changes the mirror, and the route that
\* entered the sync goes on as after a sync (update-profile answers, signup
\* creates the customer); and a sync goes on to its lookup only for a row with
\* a non-empty email.
C12_NoCallWhenUnconfigured ==
  [][\A s \in Slots :
       LET r == reqs[s]
           r2 == reqs'[s]
       IN /\ (~env.apiKey \/ ~env.baseId \/ ~env.tableName)
               => /\ mirror' = mirror
                  /\ "mirror" \notin r2.calls
                  /\ r2.pc \notin {"sy_select", "sy_write"}
                  /\ (Stepped(s) /\ r.pc = "sg_insert" /\ profiles' # profiles)
                       => r2.pc = "sg_customer"
                  /\ (Stepped(s) /\ r.pc = "ed_update" /\ r2.loc.dbError = "none")
                       => r2.loc.status = 200
          /\ r2.pc \in {"sy_select", "sy_write"} => Truthy(Get(r2.loc.row, "email"))]_vars

\* The rows the routes hand to the sync: the stored profiles (update-profile
\* passes the row the datastore returns) and the rows of the syncs in flight.
SyncRows ==
  {profiles[i] : i \in DOMAIN profiles}
    \cup {reqs[s].loc.row : s \in {t \in Slots : reqs[t].pc \in {"sy_select", "sy_write"}}}

\* C13: for every row the routes hand to the sync, two syncs of it one after
\* the other on an empty mirror leave exactly one record, with that row's
\* email, whose fields after the second sync are those after the first; and
\* every write of a sync whose lookup is still current is that run.
C13_SyncTwiceOneRecord ==
  /\ [](\A row \in SyncRows :
          LET m1 == SyncRun(<<>>, row)
              m2 == SyncRun(m1, row)
          IN /\ Len(m1) = 1
             /\ Len(m2) = 1
             /\ m1[1].fields.Email = row.email
             /\ m2[1].fields = m1[1].fields)
  /\ [][\A s \in Slots :
          (/\ Stepped(s)
           /\ reqs[s].pc = "sy_write"
           /\ reqs[s].loc.rec = FindByEmail(mirror, reqs[s].loc.row.email))
            => \/ mirror' = mirror
               \/ mirror' = SyncRun(mirror, reqs[s].loc.row)]_vars

C13_Witness ==
  \E s \in Slots :
    /\ Answered(s, "edit")
    /\ reqs[s].loc.status = 200
    /\ "mirror" \in reqs[s].calls
    /\ Len(mirror) = 1
    /\ mirror[1].fields = MirrorFields(profiles["u_a"])
    /\ mirror[1].fields.City = Str("Austin")
    /\ mirror = SyncRun(SyncRun(<<>>, profiles["u_a"]), profiles["u_a"])

\* C14: a sync's lookup yields a record whose Email is the row's email when
\* there is one and none otherwise; a write the mirror carries out after a
\* lookup that found a record changes that record only, keeps its id and the
\* number of records, sets every field of the built field set and keeps every
\* other field of the record; after a lookup that found none it appends
\* exactly one record carrying the built field set and changes no other.
C14_UpdateInPlaceOrCreate ==
  [][\A s \in Slots :
       LET r == reqs[s]
           r2 == reqs'[s]
       IN /\ (Stepped(s) /\ r.pc = "sy_select" /\ r2.pc = "sy_write")
               => IF \E i \in 1..Len(mirror) : mirror[i].fields.Email = r.loc.row.email
                  THEN /\ r2.loc.rec \in 1..Len(mirror)
                       /\ mirror[r2.loc.rec].fields.Email = r.loc.row.email
                  ELSE r2.loc.rec = 0
          /\ (Stepped(s) /\ r.pc = "sy_write" /\ mirror' # mirror)
               => LET built == MirrorFields(r.loc.row)
                      n == r.loc.rec
                  IN IF n > 0
                     THEN /\ Len(mirror') = Len(mirror)
                          /\ \A j \in 1..Len(mirror) : j # n => mirror'[j] = mirror[j]
                          /\ mirror'[n].id = mirror[n].id
                          /\ DOMAIN mirror'[n].fields
                               = DOMAIN mirror[n].fields \cup DOMAIN built
                          /\ \A k \in DOMAIN built : mirror'[n].fields[k] = built[k]
                          /\ \A k \in DOMAIN mirror[n].fields \ DOMAIN built :
                               mirror'[n].fields[k] = mirror[n].fields[k]
                     ELSE /\ Len(mirror') = Len(mirror) + 1
                          /\ \A j \in 1..Len(mirror) : mirror'[j] = mirror[j]
                          /\ mirror'[Len(mirror')].fields = built]_vars

C14_Witness ==
  \E s \in Slots :
    /\ Answered(s, "edit")
    /\ "mirror" \in reqs[s].calls
    /\ Len(mirror) = 2
    /\ \E i \in 1..2 :
         /\ mirror[i].fields.Email = Str("a@b.com")
         /\ mirror[i].fields.City = Str("Austin")
         /\ "Starting price" \in DOMAIN mirror[i].fields
         /\ "Starting price" \notin DOMAIN MirrorFields(profiles["u_a"])
         /\ mirror[3 - i].fields.Email = Str("c@d.com")

\* A column that holds a value: not null, not undefined, not "".
HasValue(row, col) == Get(row, col) \notin {JNull, JUndef, Str("")}

\* C15: the record a sync creates carries Email, Name, Phone, City, State and
\* Plan; Email is the row's email; Name is business_name if non-empty, else
\* full_name if non-empty, else "Mover"; and each of Phone, City, State and
\* Plan is the row's value, or "" when the row has none.
C15_FieldSetDefaults ==
  [][\A s \in Slots :
       (Stepped(s) /\ reqs[s].pc = "sy_write" /\ Len(mirror') = Len(mirror) + 1)
         => LET row == reqs[s].loc.row
                f == mirror'[Len(mirror')].fields
            IN /\ {"Email", "Name", "Phone", "City", "State", "Plan"} \subseteq DOMAIN f
               /\ f.Email = row.email
               /\ f.Name = IF HasValue(row, "business_name") THEN row.business_name
                           ELSE IF HasValue(row, "full_name") THEN row.full_name
                           ELSE Str("Mover")
               /\ f.Phone = IF HasValue(row, "phone_e164") THEN row.phone_e164 ELSE Str("")
               /\ f.City = IF HasValue(row, "city") THEN row.city ELSE Str("")
               /\ f.State = IF HasValue(row, "state") THEN row.state ELSE Str("")
               /\ f.Plan = IF HasValue(row, "plan") THEN row.plan ELSE Str("")]_vars

\* C15 as the code has it: the same, except that Plan is "Starter" when the row
\* has no plan.
C15_FieldSetPlanStarter ==
  [][\A s \in Slots :
       (Stepped(s) /\ reqs[s].pc = "sy_write" /\ Len(mirror') = Len(mirror) + 1)
         => LET row == reqs[s].loc.row
                f == mirror'[Len(mirror')].fields
            IN /\ {"Email", "Name", "Phone", "City", "State", "Plan"} \subseteq DOMAIN f
               /\ f.Email = row.email
               /\ f.Name = IF HasValue(row, "business_name") THEN row.business_name
                           ELSE IF HasValue(row, "full_name") THEN row.full_name
                           ELSE Str("Mover")
               /\ f.Phone = IF HasValue(row, "phone_e164") THEN row.phone_e164 ELSE Str("")
               /\ f.City = IF HasValue(row, "city") THEN row.city ELSE Str("")
               /\ f.State = IF HasValue(row, "state") THEN row.state ELSE Str("")
               /\ f.Plan = IF HasValue(row, "plan") THEN row.plan ELSE Str("Starter")]_vars

C15_Witness ==
  /\ Len(mirror) = 1
  /\ profiles["u_a"].plan = JNull
  /\ profiles["u_a"].business_name = Str("Acme Movers")
  /\ profiles["u_a"].full_name = Str("Ann Lee")
  /\ profiles["u_a"].city = JNull
  /\ mirror[1].fields.Plan = Str("Starter")
  /\ mirror[1].fields.Name = Str("Acme Movers")
  /\ mirror[1].fields.City = Str("")

\* C16: the record a sync creates carries "Starting price" exactly when the
\* row's starting_price is not null, with the row's value, zero included; and
\* it carries Logo exactly when logo_url is non-empty.
C16_OptionalFields ==
  [][\A s \in Slots :
       (Stepped(s) /\ reqs[s].pc = "sy_write" /\ Len(mirror') = Len(mirror) + 1)
         => LET row == reqs[s].loc.row
                f == mirror'[Len(mirror')].fields
            IN /\ "Starting price" \in DOMAIN f
                    <=> Get(row, "starting_price") \notin {JNull, JUndef}
               /\ "Starting price" \in DOMAIN f => f["Starting price"] = row.starting_price
               /\ "Logo" \in DOMAIN f <=> HasValue(row, "logo_url")]_vars

\* C17: a signup, update-profile or cancel request goes past the step that
\* receives it only with a non-empty email (and, for signup, a non-empty
\* password); otherwise it is answered 400 in that step, with no call made or
\* pending and no profile, account, customer or mirror record changed.
C17_MissingFieldRejected ==
  [][\A s \in Slots :
       LET r2 == reqs'[s]
       IN (Stepped(s) /\ Free(s) /\ r2.op \in {"signup", "edit", "cancel"})
            => /\ r2.pc # "done"
                    => /\ Truthy(r2.in.email)
                       /\ r2.op = "signup" => Truthy(r2.in.password)
               /\ r2.pc = "done"
                    => /\ r2.loc.status = 400
                       /\ r2.loc.msg \in {"Missing required fields", "Missing email"}
                       /\ r2.calls = {}
                       /\ UNCHANGED <<profiles, authUsers, customers, mirror>>]_vars

C17_Witness ==
  \E s \in Slots :
    /\ Answered(s, "signup")
    /\ reqs[s].in.email = Str("a@b.com")
    /\ reqs[s].loc.status = 400
    /\ reqs[s].loc.msg = "Missing required fields"
    /\ reqs[s].calls = {}
    /\ "a@b.com" \notin DOMAIN authUsers
    /\ "u_c" \in DOMAIN profiles

\* C18: when the identity provider answers a signup's createUser without
\* creating an account, the signup ends in that step with 400 "Auth create
\* failed", having called the identity provider only, and no profile, gateway
\* customer or mirror record is created or changed.
C18_AuthRejected ==
  [][\A s \in Slots :
       LET r == reqs[s]
           r2 == reqs'[s]
       IN (/\ Stepped(s)
           /\ r.op = "signup"
           /\ r.pc = "sg_auth"
           /\ authUsers' = authUsers)
            => /\ r2.pc = "done"
               /\ r2.loc.status = 400
               /\ r2.loc.msg = "Auth create failed"
               /\ r2.calls = {"auth"}
               /\ UNCHANGED <<profiles, customers, mirror>>]_vars

C18_Witness ==
  \E s \in Slots :
    /\ Answered(s, "signup")
    /\ reqs[s].in.email = Str("a@b.com")
    /\ reqs[s].loc.msg = "Auth create failed"
    /\ "a@b.com" \notin DOMAIN authUsers
    /\ "u_a" \notin DOMAIN profiles
    /\ "cus_a" \notin customers
    /\ Len(mirror) = 1
    /\ mirror[1].fields.Email = Str("c@d.com")

\* The columns update-profile writes.
EditedColumns == EditColumns \cup {"updated_at"}

\* C20: a cancel request whose gateway call fails is answered 500 and no step
\* of it has changed or changes a profile; a signup whose customers.create
\* fails is answered 500, creates no customer and leaves its profile as
\* inserted (status "pending", stripe_customer_id null, every column that
\* update-profile does not write as the insert set it); a signup whose
\* checkout-session call fails is answered 500 and writes nothing after it.
C20_GatewayFailure ==
  [][\A s \in Slots :
       LET r == reqs[s]
           r2 == reqs'[s]
       IN /\ (Stepped(s) /\ r2.op = "cancel" /\ r.pc # "cn_update")
               => profiles' = profiles
          /\ (Stepped(s) /\ r.op = "cancel" /\ r.pc = "cn_gateway" /\ r2.pc = "done")
               => r2.loc.status = 500
          /\ (Stepped(s) /\ r.op = "signup" /\ r.pc = "sg_customer" /\ r2.pc = "done")
               => /\ r2.loc.status = 500
                  /\ UNCHANGED <<profiles, customers>>
                  /\ LET row == profiles[r.loc.user.v]
                     IN /\ row.status = Str("pending")
                        /\ row.stripe_customer_id = JNull
                        /\ \A c \in DOMAIN row \ EditedColumns :
                             row[c] = InsertedRow(r.loc.user, r.in)[c]
          /\ (Stepped(s) /\ r.op = "signup" /\ r.pc = "sg_session")
               => /\ r2.pc = "done"
                  /\ r2.loc.status \in {200, 500}
                  /\ UNCHANGED <<profiles, customers>>]_vars

C20_Witness ==
  \E s \in Slots :
    /\ Answered(s, "cancel")
    /\ reqs[s].in.email = Str("a@b.com")
    /\ reqs[s].loc.status = 500
    /\ reqs[s].loc.msg = "Server error"
    /\ "gateway" \in reqs[s].calls
    /\ profiles["u_a"].status = Str("active")
    /\ profiles["u_a"].stripe_subscription_id = Str("sub_A")
    /\ "u_c" \in DOMAIN profiles
    /\ "cus_c" \notin customers
    /\ profiles["u_c"].status = Str("pending")
    /\ profiles["u_c"].stripe_customer_id = JNull

\* What the three routes answer when the datastore or the server fails.
GenericFailures ==
  {<<500, "Profile lookup failed">>, <<500, "Failed to update profile">>,
   <<500, "Server error">>}

\* C19: when the datastore answers the lookup of a dashboard, update-profile or
\* cancel request for an email that has no profile, the request ends with an
\* answer that is none of the answers these routes give for a failure of the
\* datastore or the server; and when the datastore fails that lookup, the
\* answer is one of those.
C19_NotFoundDistinct ==
  [][\A s \in Slots :
       LET r == reqs[s]
           r2 == reqs'[s]
       IN (/\ Stepped(s)
           /\ r.pc \in {"db_select", "ed_update", "cn_select"}
           /\ \A i \in DOMAIN profiles : profiles[i].email # r.in.email)
            => /\ r2.pc = "done"
               /\ profiles' = profiles
               /\ r2.loc.dbError = "fault"
                    => <<r2.loc.status, r2.loc.msg>> \in GenericFailures
               /\ r2.loc.dbError # "fault"
                    => <<r2.loc.status, r2.loc.msg>> \notin GenericFailures]_vars

\* The columns of a row that hold a string with a character that is not
\* whitespace.
FilledIn(row) ==
  {c \in {"full_name", "business_name", "phone_e164", "city", "state", "logo_url"} :
     /\ row[c].t = "str"
     /\ \E i \in 1..Len(row[c].v) : SubSeq(row[c].v, i, i) \notin {" ", "\t", "\n"}}

\* filled/6 x 100 rounded half-up, for filled = 0..6.
PercentOfSix == <<0, 17, 33, 50, 67, 83, 100>>

\* C21: computeProfileCompletion returns 0 for an absent profile and otherwise
\* filled/6 x 100 rounded half-up, an integer in 0..100, where filled counts the
\* six tracked columns whose trimmed value is non-empty.
C21_CompletionScore ==
  \A s \in Slots :
    Answered(s, "score")
      => LET p == reqs[s].in.profile
             result == reqs[s].loc.result
         IN /\ result \in 0..100
            /\ p \in {JNull, JUndef} => result = 0
            /\ p \notin {JNull, JUndef}
                 => result = PercentOfSix[Cardinality(FilledIn(p)) + 1]

C21_Witness ==
  \E s \in Slots :
    /\ Answered(s, "score")
    /\ reqs[s].in.profile \notin {JNull, JUndef}
    /\ reqs[s].in.profile.full_name = Str("  ")
    /\ reqs[s].in.profile.city = Str(" Austin ")
    /\ Cardinality(FilledIn(reqs[s].in.profile)) = 5
    /\ reqs[s].loc.result = 83

\* C22: mapProfileToMover returns the empty object for an absent profile; for a
\* row its name is full_name when that is non-empty, else business_name when
\* that is non-empty, else "Mover", and its profileCompletion is the score of
\* the row.
C22_ProjectedView ==
  \A s \in Slots :
    Answered(s, "project")
      => LET p == reqs[s].in.profile
             view == reqs[s].loc.result
         IN /\ p \in {JNull, JUndef} => view = <<>>
            /\ p \notin {JNull, JUndef}
                 => /\ view.name =
                         IF p.full_name \notin {JNull, Str("")} THEN p.full_name
                         ELSE IF p.business_name \notin {JNull, Str("")} THEN p.business_name
                         ELSE Str("Mover")
                    /\ view.profileCompletion =
                         Num(PercentOfSix[Cardinality(FilledIn(p)) + 1])
                    /\ view.profileCompletion = Num(computeProfileCompletion(p))

C22_Witness ==
  \E s \in Slots :
    /\ Answered(s, "project")
    /\ reqs[s].in.profile \notin {JNull, JUndef}
    /\ reqs[s].in.profile.full_name = Str("")
    /\ reqs[s].in.profile.business_name = Str("Acme Movers")
    /\ reqs[s].loc.result.name = Str("Acme Movers")
    /\ reqs[s].loc.result.profileCompletion = Num(17)

\* Number(x) of the starting prices handed to the helper, from the language's
\* definition of the conversion.
ReferenceNumber(sp) ==
  CASE sp \in {Num(0), Str("0"), Str(" ")} -> Num(0)
    [] sp \in {Num(150), Str("150")} -> Num(150)
    [] sp = Str(" 75 ") -> Num(75)
    [] sp = Str("abc") -> [t |-> "nan"]

\* C23: the view's startingPrice is the numeric conversion of starting_price
\* when that is present and not the empty string (a stored 0 gives 0), and is
\* undefined, which is neither 0 nor null, when starting_price is null, absent
\* or the empty string.
C23_StartingPrice ==
  \A s \in Slots :
    (Answered(s, "project") /\ reqs[s].in.profile \notin {JNull, JUndef})
      => LET p == reqs[s].in.profile
             sp == IF "starting_price" \in DOMAIN p THEN p.starting_price ELSE JUndef
             price == reqs[s].loc.result.startingPrice
         IN IF sp \in {JNull, JUndef, Str("")}
            THEN price = JUndef /\ price # Num(0) /\ price # JNull
            ELSE price = ReferenceNumber(sp) /\ price # JUndef

C23_Witness ==
  \E s \in Slots :
    /\ Answered(s, "project")
    /\ reqs[s].in.profile \notin {JNull, JUndef}
    /\ "starting_price" \in DOMAIN reqs[s].in.profile
    /\ reqs[s].in.profile.starting_price = Num(0)
    /\ reqs[s].loc.result.startingPrice = Num(0)

\* toLocaleDateString of the instants handed to the helper, from the calendar.
ReferenceLabel(n) ==
  CASE n \in {0, 1, 86399} -> "Jan 1, 1970"
    [] n = 86400 -> "Jan 2, 1970"
    [] n \in {951782400, 951868799} -> "Feb 29, 2000"
    [] n = 1700000000 -> "Nov 14, 2023"
    [] n = 1709251199 -> "Feb 29, 2024"
    [] n = 1730003600 -> "Oct 27, 2024"

\* The strings among the inputs that write a calendar date and time.
ReferenceInstant(str) ==
  CASE str = "1970-01-01T00:00:00.000Z" -> 0
    [] str = "1970-01-01T00:00:01.000Z" -> 1
    [] str = "1970-01-01T23:59:59.000Z" -> 86399
    [] str = "1970-01-02T00:00:00.000Z" -> 86400
    [] str = "2000-02-29T00:00:00.000Z" -> 951782400
    [] str = "2000-02-29T23:59:59.000Z" -> 951868799
    [] str = "2023-11-14T22:13:20.000Z" -> 1700000000
    [] str = "2024-02-29T23:59:59.000Z" -> 1709251199
    [] str = "2024-10-27T04:33:20.000Z" -> 1730003600
    [] OTHER -> -1

\* C24: formatDateLabel returns "N/A" exactly when its argument is null or
\* absent or does not parse to a valid calendar date, and renders every number,
\* 0 included, as the calendar date of that many seconds since the epoch.
C24_DateLabel ==
  \A s \in Slots :
    Answered(s, "format")
      => LET v == reqs[s].in.value
             label == reqs[s].loc.result
         IN CASE v \in {JNull, JUndef} -> label = "N/A"
              [] v.t = "num" -> label = ReferenceLabel(v.v)
              [] v.t = "str" ->
                   IF ReferenceInstant(v.v) < 0 THEN label = "N/A"
                   ELSE label = ReferenceLabel(ReferenceInstant(v.v))

\* The events the gateway can have delivered in the current state.
Deliverable ==
  UNION {EventsAbout(c, EventTypes) : c \in GatewayCustomers}

\* C25: from any profile table the service reaches, delivering an event, then
\* any event, and then the first event once more leaves the table as the first
\* two deliveries left it.
C25_RedeliveryAnyTime ==
  \A ev \in Deliverable : \A later \in Deliverable :
    Deliver(Deliver(Deliver(profiles, ev), later), ev)
      = Deliver(Deliver(profiles, ev), later)

\* C30: every step that changes a column of an existing profile also sets that
\* profile's updated_at to a reading of the server's clock.
C30_UpdatedAtStamped ==
  [][\A i \in DOMAIN profiles :
       profiles'[i] # profiles[i]
         => \E k \in 1..Len(Instants) :
              /\ clock' = k
              /\ profiles'[i].updated_at = Str(SecondsToISO(Instants[k]))]_vars

\* C29: a signup or update-profile request enters the mirror sync only in the
\* step in which the datastore has carried out its insert or update, with the
\* written row in the table; a request whose insert or update the datastore
\* fails ends in that step without a mirror call, and no request makes a mirror
\* call or changes the mirror at any other point.
C29_WriteBeforeSync ==
  [][\A s \in Slots :
       LET r == reqs[s]
           r2 == reqs'[s]
       IN /\ (Stepped(s) /\ "mirror" \in r2.calls /\ "mirror" \notin r.calls)
               => /\ r2.pc = "sy_select"
                  /\ mirror' = mirror
                  /\ \/ /\ r.op = "signup"
                        /\ r.pc = "sg_insert"
                        /\ r.loc.user.v \notin DOMAIN profiles
                        /\ r.loc.user.v \in DOMAIN profiles'
                        /\ profiles'[r.loc.user.v].email = r.in.email
                     \/ /\ r.op = "edit"
                        /\ r.pc = "ed_update"
                        /\ \E i \in DOMAIN profiles' :
                             /\ profiles'[i] = r2.loc.row
                             /\ profiles'[i].email = r.in.email
                             /\ \A c \in DOMAIN r.loc.updates :
                                  profiles'[i][c] = r.loc.updates[c]
          /\ (/\ Stepped(s)
              /\ r.pc \in {"sg_insert", "ed_update"}
              /\ r2.pc = "done"
              /\ r2.loc.dbError # "none")
               => /\ "mirror" \notin r2.calls
                  /\ mirror' = mirror
                  /\ profiles' = profiles
          /\ (Stepped(s) /\ mirror' # mirror)
               => r.pc = "sy_write" /\ "mirror" \in r.calls]_vars

C29_Witness ==
  \E s \in Slots :
    /\ reqs[s].op = "signup"
    /\ reqs[s].pc = "sy_select"
    /\ reqs[s].in.email = Str("c@d.com")
    /\ "u_c" \in DOMAIN profiles
    /\ \A i \in 1..Len(mirror) : mirror[i].fields.Email # Str("c@d.com")
    /\ "u_a" \in DOMAIN profiles
    /\ profiles["u_a"].city = Str("Austin")

\* The positions of the mirror records of an email.
RecordsOf(m, email) == {j \in 1..Len(m) : m[j].fields.Email = email}

\* C26: however the lookups and writes of two syncs for one email interleave,
\* every write the mirror carries out leaves a single record for that email,
\* and that record holds the field set of the sync that wrote.
C26_RacingSyncsOneRecord ==
  [][\A s \in Racers :
       LET r == reqs[s]
       IN (Stepped(s) /\ r.pc = "sy_write" /\ mirror' # mirror)
            => /\ Cardinality(RecordsOf(mirror', r.loc.row.email)) = 1
               /\ \A j \in RecordsOf(mirror', r.loc.row.email) :
                    \A k \in DOMAIN MirrorFields(r.loc.row) :
                      /\ k \in DOMAIN mirror'[j].fields
                      /\ mirror'[j].fields[k] = MirrorFields(r.loc.row)[k]]_vars

\* C27: with the mirror configured and never failing, whenever no request is in
\* flight, every mirror record of a profile's email carries the field set built
\* from that profile's stored values.
C27_MirrorConverges ==
  (\A s \in Racers : Free(s))
    => \A i \in DOMAIN profiles :
         /\ RecordsOf(mirror, profiles[i].email) # {}
         /\ \A j \in RecordsOf(mirror, profiles[i].email) :
              \A k \in DOMAIN MirrorFields(profiles[i]) :
                /\ k \in DOMAIN mirror[j].fields
                /\ mirror[j].fields[k] = MirrorFields(profiles[i])[k]

\* C28: with update-profile requests overlapping, the step in which the
\* datastore carries out a request's update sets, in the profile of the
\* request's email, every column the request supplied to the value it sent and
\* updated_at to the request's stamp, all in that one step, and leaves every
\* column the request did not supply, and every other profile, as it was; so
\* each column holds what the last update that supplied it sent.
C28_EditsLastWriteWins ==
  [][\A s \in Racers :
       LET r == reqs[s]
           r2 == reqs'[s]
           failed == r2.pc = "done" /\ r2.loc.dbError = "fault"
       IN (Stepped(s) /\ r.op = "edit" /\ r.pc = "ed_update")
            => /\ DOMAIN profiles' = DOMAIN profiles
               /\ \A i \in DOMAIN profiles :
                    \A c \in DOMAIN profiles[i] :
                      profiles'[i][c] =
                        IF failed \/ profiles[i].email # r.in.email THEN profiles[i][c]
                        ELSE IF c \in EditColumns /\ r.in[c] # JUndef THEN r.in[c]
                        ELSE IF c = "updated_at" THEN r.loc.updates.updated_at
                        ELSE profiles[i][c]]_vars

C28_Witness ==
  /\ \A s \in Racers : reqs[s].op = "edit" /\ reqs[s].pc \in {"sy_select", "sy_write"}
  /\ reqs[1].in # reqs[2].in
  /\ profiles["u_a"].full_name = Str("Ann Lee")
  /\ profiles["u_a"].business_name = Str("Acme Movers")
  /\ profiles["u_a"].city = Str("Austin")
  /\ profiles["u_a"].starting_price = Num(0)

\* C36: every profile's status is "pending", "active" or "cancelling"; no step
\* writes "cancelled"; and a profile that is "cancelling" stays so in every
\* step but the update of a checkout.session.completed delivery, which makes
\* it "active".
C36_StatusNeverCancelled ==
  /\ [](\A i \in DOMAIN profiles :
          profiles[i].status \in {Str("pending"), Str("active"), Str("cancelling")})
  /\ [][\A i \in DOMAIN profiles :
          profiles[i].status = Str("cancelling")
            => \/ profiles'[i].status = Str("cancelling")
               \/ /\ profiles'[i].status = Str("active")
                  /\ \E s \in Slots :
                       /\ Stepped(s)
                       /\ reqs[s].op = "webhook"
                       /\ reqs[s].pc = "co_update"
                       /\ reqs[s].in.type = "checkout.session.completed"]_vars

C36_Witness ==
  \E s \in Slots :
    /\ Answered(s, "webhook")
    /\ reqs[s].in.verified
    /\ reqs[s].in.type = "customer.subscription.updated"
    /\ reqs[s].loc.dbError = "none"
    /\ "u_a" \in DOMAIN profiles
    /\ profiles["u_a"].status = Str("cancelling")
    /\ profiles["u_a"].stripe_subscription_id = Str("sub_B")
    /\ profiles["u_a"].current_period_end = Str("2024-02-29T23:59:59.000Z")

\* C37: a profile whose status is "active" or "cancelling" has a
\* stripe_customer_id, a profile whose status is "cancelling" has a
\* stripe_subscription_id, and a profile with a stripe_subscription_id has a
\* stripe_customer_id.
C37_BillingColumnsCohere ==
  \A i \in DOMAIN profiles :
    LET p == profiles[i]
    IN /\ p.status \in {Str("active"), Str("cancelling")} => p.stripe_customer_id # JNull
       /\ p.status = Str("cancelling") => p.stripe_subscription_id # JNull
       /\ p.stripe_subscription_id # JNull => p.stripe_customer_id # JNull

C37_Witness ==
  /\ DOMAIN profiles = {"u_a", "u_c"}
  /\ profiles["u_a"].status = Str("cancelling")
  /\ profiles["u_a"].stripe_subscription_id = Str("sub_A")
  /\ profiles["u_a"].stripe_customer_id = Str("cus_a")
  /\ profiles["u_c"].status = Str("pending")
  /\ profiles["u_c"].stripe_customer_id = JNull

\* C39: whenever a signup is answered with the checkout URL, the profile of its
\* email has the stripe_customer_id of the customer the signup created.
C39_UrlImpliesCustomerStored ==
  \A s \in Slots :
    (Answered(s, "signup") /\ reqs[s].loc.status = 200)
      => \E i \in DOMAIN profiles :
           /\ profiles[i].email = reqs[s].in.email
           /\ profiles[i].stripe_customer_id = Str(CustomerOf(reqs[s].in.email.v))

\* C40: whenever the update step of a verified checkout.session.completed or
\* customer.subscription.updated delivery ends with the acknowledgement 200,
\* the profile found by the lookup has the event's values: status "active",
\* respectively the event's subscription id and the ISO date-time of its
\* period end.
C40_AckImpliesApplied ==
  [][\A s \in Slots :
       LET r == reqs[s]
           r2 == reqs'[s]
       IN (/\ Stepped(s)
           /\ r.op = "webhook"
           /\ r.pc \in {"co_update", "su_update"}
           /\ r2.loc.status = 200)
            => IF r.pc = "co_update"
               THEN profiles'[r.loc.user.v].status = Str("active")
               ELSE /\ profiles'[r.loc.user.v].stripe_subscription_id = r.in.id
                    /\ profiles'[r.loc.user.v].current_period_end
                         = Str(ReferenceISO(r.in.current_period_end))]_vars

\* C31: no step of a dashboard, webhook or cancel request calls the mirror or
\* changes it; the mirror changes only in the write step of the sync that a
\* signup or an update-profile request runs.
C31_OnlySignupAndEditReachMirror ==
  [][/\ \A s \in Slots :
          (Stepped(s) /\ reqs'[s].op \in {"dashboard", "webhook", "cancel"})
            => (mirror' = mirror /\ "mirror" \notin reqs'[s].calls)
     /\ (mirror' # mirror)
          => \E s \in Slots :
               /\ Stepped(s)
               /\ reqs[s].op \in {"signup", "edit"}
               /\ reqs[s].pc = "sy_write"]_vars

C31_Witness ==
  \E s \in Slots :
    /\ Answered(s, "webhook")
    /\ reqs[s].in.verified
    /\ reqs[s].in.type = "checkout.session.completed"
    /\ reqs[s].loc.dbError = "none"
    /\ profiles["u_a"].status = Str("active")
    /\ Len(mirror) = 1
    /\ mirror[1].fields.Email = Str("a@b.com")

\* C32: the mirror never loses a record: no step shortens it, every record
\* keeps its id and its Email from step to step, and no two records share an
\* id.
C32_MirrorRecordsStay ==
  /\ [](\A i, j \in 1..Len(mirror) : mirror[i].id = mirror[j].id => i = j)
  /\ [][/\ Len(mirror') >= Len(mirror)
        /\ \A i \in 1..Len(mirror) :
             /\ mirror'[i].id = mirror[i].id
             /\ mirror'[i].fields.Email = mirror[i].fields.Email]_vars

C32_Witness ==
  \E s \in Slots :
    /\ Answered(s, "edit")
    /\ reqs[s].loc.status = 200
    /\ Len(mirror) = 2
    /\ \E i \in 1..2 :
         /\ mirror[i].id = i
         /\ mirror[i].fields.Email = Str("a@b.com")
         /\ mirror[i].fields.City = Str("Austin")

\* C33: every profile's current_period_end is null or the ISO-8601 form of
\* one of the gateway's epoch values, and no step of a signup or an
\* update-profile request changes it, whatever the request body carries.
C33_PeriodEndFromGateway ==
  /\ [](\A i \in DOMAIN profiles :
          \/ profiles[i].current_period_end = JNull
          \/ \E e \in Epochs : profiles[i].current_period_end = Str(ReferenceISO(e)))
  /\ [][\A s \in Slots :
          (Stepped(s) /\ reqs'[s].op \in {"signup", "edit"})
            => /\ \A i \in DOMAIN profiles \cap DOMAIN profiles' :
                    profiles'[i].current_period_end = profiles[i].current_period_end
               /\ \A i \in DOMAIN profiles' \ DOMAIN profiles :
                    profiles'[i].current_period_end = JNull]_vars

C33_Witness ==
  \E s \in Slots :
    /\ Answered(s, "edit")
    /\ reqs[s].loc.status = 200
    /\ "u_a" \in DOMAIN profiles
    /\ profiles["u_a"].city = Str("Austin")
    /\ profiles["u_a"].current_period_end = Str("2024-02-29T23:59:59.000Z")

\* C38: a step of an update-profile request keeps the set of profiles, leaves
\* every profile with another email as it was, and in the profile with the
\* request's email changes no column other than full_name, business_name,
\* phone_e164, city, state, logo_url, starting_price and updated_at.
C38_EditFrame ==
  [][\A s \in Slots :
       (Stepped(s) /\ reqs'[s].op = "edit")
         => /\ DOMAIN profiles' = DOMAIN profiles
            /\ \A i \in DOMAIN profiles :
                 /\ profiles[i].email # reqs'[s].in.email => profiles'[i] = profiles[i]
                 /\ \A c \in DOMAIN profiles[i] \
                             {"full_name", "business_name", "phone_e164", "city", "state",
                              "logo_url", "starting_price", "updated_at"} :
                      profiles'[i][c] = profiles[i][c]]_vars

C38_Witness ==
  \E s \in Slots :
    /\ Answered(s, "edit")
    /\ reqs[s].loc.status = 200
    /\ DOMAIN profiles = {"u_a", "u_c"}
    /\ profiles["u_a"].city = Str("Austin")
    /\ profiles["u_a"].status = Str("pending")
    /\ profiles["u_a"].plan # Str("Pro")
    /\ profiles["u_c"].city = JNull

\* C35: whatever signups have run or are running, repeated and overlapping
\* ones for one email included, no two profiles share an email, each profile
\* is the only one with its account id, and every insert a signup sends is for
\* an account id and an email that no profile has yet.
C35_OneProfilePerEmailAndAccount ==
  /\ [](\A i, j \in DOMAIN profiles :
          /\ profiles[i].id = Str(i)
          /\ profiles[i].email = profiles[j].email => i = j)
  /\ [][\A s \in Racers :
          (Stepped(s) /\ reqs[s].pc = "sg_insert")
            => /\ reqs[s].loc.user.v \notin DOMAIN profiles
               /\ \A i \in DOMAIN profiles : profiles[i].email # reqs[s].in.email]_vars

C35_Witness ==
  \E s, t \in Racers :
    /\ s # t
    /\ reqs[s].op = "signup"
    /\ reqs[s].pc = "sg_session"
    /\ reqs[s].in.email = Str("a@b.com")
    /\ Answered(t, "signup")
    /\ reqs[t].in.email = Str("a@b.com")
    /\ reqs[t].loc.msg = "Auth create failed"
    /\ Cardinality({i \in DOMAIN profiles : profiles[i].email = Str("a@b.com")}) = 1

\* Every request a handler has taken up is answered.
EveryRequestAnswered ==
  \A s \in Slots : (reqs[s].pc \notin {"idle", "done"}) ~> (reqs[s].pc = "done")

\* A slot that holds a response changes only when a new request arrives, and a
\* handler that is running keeps its route until it has responded.
OneResponseEach ==
  [][\A s \in Slots :
       Stepped(s)
         => /\ reqs[s].pc = "done" => Receive(s)
            /\ reqs[s].pc \notin {"idle", "done"} => reqs'[s].op = reqs[s].op]_vars

\* A throw of a datastore, identity or gateway call ends the request with
\* status 500 and the fixed text of the route's catch.
ThrowAnswered500 ==
  [][\A s \in Slots :
       (\/ CallThrows(s)
        \/ Stepped(s) /\ reqs[s].pc \in {"cn_gateway", "sg_customer"}
                      /\ reqs'[s].pc = "done")
         => /\ reqs'[s].pc = "done"
            /\ <<reqs'[s].loc.status, reqs'[s].loc.msg>>
                 \in {<<500, "Server Error">>, <<500, "Server error">>,
                      <<500, "Signup failed">>}]_vars

\* The step in which the mirror's lookup fails (the sync does not go on to
\* its write).
MirrorLookupThrows(s) ==
  Stepped(s) /\ reqs[s].pc = "sy_select" /\ reqs'[s].pc # "sy_write"

\* C34, as stated: every request is answered, once, and a throw of any
\* external call, the mirror's included, ends the request with a server error.
C34_EveryThrowIsServerError ==
  /\ EveryRequestAnswered
  /\ OneResponseEach
  /\ ThrowAnswered500
  /\ [][\A s \in Slots :
          MirrorLookupThrows(s)
            => reqs'[s].pc = "done" /\ reqs'[s].loc.status = 500]_vars

\* C34, amended: every request is answered, once; a throw of a datastore,
\* identity or gateway call ends it with the route's server error; a throw of
\* a mirror call is caught inside the sync, and the request goes on as after a
\* sync that succeeded (a signup to its customer, an edit to its 200).
C34_EveryRequestAnsweredOnce ==
  /\ EveryRequestAnswered
  /\ OneResponseEach
  /\ ThrowAnswered500
  /\ [][\A s \in Slots :
          MirrorLookupThrows(s)
            => IF reqs[s].op = "signup"
               THEN reqs'[s].pc = "sg_customer"
               ELSE reqs'[s].pc = "done" /\ reqs'[s].loc.status = 200]_vars

C34_Witness ==
  \E s \in Slots :
    /\ Answered(s, "dashboard")
    /\ reqs[s].in.email = Str("a@b.com")
    /\ reqs[s].loc.status = 500
    /\ reqs[s].loc.msg = "Server error"
    /\ "u_a" \in DOMAIN profiles
    /\ Len(mirror) = 0

====
